---- MODULE Spec2Model ----
(***************************************************************************)
(* A model of the image converter: the App component that owns the job     *)
(* list and runs conversions (src/src/App.tsx, and its earlier version     *)
(* src/unnamed/part_001), the conversion worker                            *)
(* (src/src/workers/conversionWorker.ts), and the pure functions both      *)
(* share: detectJpegColorProfile and convertColorSpace.                    *)
(*                                                                         *)
(* The App never constructs the worker and the two share no state, so a    *)
(* behaviour exercises one component, chosen by `component` in Init.       *)
(***************************************************************************)
EXTENDS Integers, Sequences, FiniteSets, TLC

VARIABLES
    component,   \* which part of the program this behaviour exercises
    appVersion,  \* "manual": src/src/App.tsx, "auto": src/unnamed/part_001
    jobs,        \* App: useState<ConversionJob[]>, a sequence of job records
    nextId,      \* App: number of ids createJobId has handed out
    runs,        \* App: position of each runConversion invocation, by job id
    codecInit,   \* App: codecInitRef.current ("null" until first use)
    dispatched,  \* App: job ids in the order runConversion was called
    updates,     \* App: per job id, the patches passed to updateJob, in order
    codecInitPromise, \* worker: the module-level initialisation promise
    handlers,    \* worker: position of each onmessage invocation, by request id
    posted,      \* worker: per request id, the messages posted, in order
    cImage,      \* convertColorSpace: the ImageData after the calls made so far
    cPrev,       \* convertColorSpace: the ImageData passed to the last call
    cInput,      \* convertColorSpace: the samples before any call
    cTrail,      \* convertColorSpace: the <<from, to>> of each call, in order
    bytes,       \* detectJpegColorProfile: the buffer, a sequence of 0..255
    offset,      \* detectJpegColorProfile: the scan offset
    scanned,     \* detectJpegColorProfile: offsets at which a marker was read
    detected,    \* detectJpegColorProfile: "scanning", or the profile returned
    rImage,      \* resizeImageData: the ImageData after the calls made so far
    rPrev,       \* resizeImageData: the ImageData passed to the last call
    rTrail,      \* resizeImageData: the shortEdge of each call, in order
    rSurfaces,   \* resizeImageData: drawing surfaces the last call created
    rThrew,      \* resizeImageData: the last call threw
    eImage,      \* encodeByFormat: the ImageData passed
    eCalls,      \* encodeByFormat: the calls made, each with what it invoked
    task         \* one conversion, step by step: its request, the values its
                 \* steps computed, the calls they made and what it reported

appVars == <<appVersion, jobs, nextId, runs, codecInit, dispatched, updates>>

workerVars == <<codecInitPromise, handlers, posted>>

convertVars == <<cImage, cPrev, cInput, cTrail>>

detectVars == <<bytes, offset, scanned, detected>>

resizeVars == <<rImage, rPrev, rTrail, rSurfaces, rThrew>>

encodeVars == <<eImage, eCalls>>

vars == <<component, appVars, workerVars, convertVars, detectVars, resizeVars, encodeVars, task>>

(***************************************************************************)
(* Bounds.                                                                 *)
(***************************************************************************)
\* Job ids createJobId hands out in one behaviour.
MaxJobs == 2

\* Files one addFiles call may carry.
MaxBatch == 2

\* Calls of convertColorSpace made on one ImageData.
MaxConversions == 2

\* Pieces (marker segments, stray bytes) after the first bytes of a buffer.
MaxPieces == 2

\* Calls of resizeImageData made one after the other, and the longest side
\* of an image passed to it.
MaxResizes == 2

MaxSide == 1200

\* Calls of encodeByFormat made on one ImageData.
MaxEncodes == 2

\* The source fixes no pool size: the claims about a pool of N execution
\* contexts are stated for N one less than the number of jobs submitted.
PoolSize == MaxJobs - 1

JobIds == 1..MaxJobs

(***************************************************************************)
(* A File is modelled by what the pipeline does with it: "ok" converts,    *)
(* "baddata" makes arrayBuffer/decode reject, "nosurface" makes            *)
(* createSurface throw while resampling, "badencode" makes the encoder     *)
(* reject.                                                                 *)
(***************************************************************************)
Files == {"ok", "baddata", "nosurface", "badencode"}

NoProgress == -1

NoImage == [obj |-> 0, width |-> 0, height |-> 0, data |-> <<>>]

RECURSIVE SeqsUpTo(_, _)
SeqsUpTo(S, n) ==
    IF n = 0 THEN {<<>>}
    ELSE LET shorter == SeqsUpTo(S, n - 1)
         IN  shorter \cup {Append(s, x) : s \in {t \in shorter : Len(t) = n - 1}, x \in S}

(***************************************************************************)
(* The App component.                                                      *)
(***************************************************************************)
NewJob(id, file) ==
    [id |-> id, file |-> file, status |-> "pending", progress |-> 0,
     error |-> "none", blob |-> FALSE]

\* { ...job, ...patch }
Merge(job, patch) ==
    [f \in DOMAIN job |-> IF f \in DOMAIN patch THEN patch[f] ELSE job[f]]

\* updateJob adding a job for an id the list does not hold.
updateJobOrAdd(js, id, patch) ==
    IF \E k \in DOMAIN js : js[k].id = id
    THEN [k \in DOMAIN js |-> IF js[k].id = id THEN Merge(js[k], patch) ELSE js[k]]
    ELSE Append(js, Merge(NewJob(id, "ok"), patch))

\* updateJob with the id test dropped: the patch reaches every job.
updateJobEveryJob(js, id, patch) ==
    [k \in DOMAIN js |-> Merge(js[k], patch)]

\* prev.map((job) => (job.id === id ? { ...job, ...patch } : job))
updateJob(js, id, patch) ==
    [k \in DOMAIN js |-> IF js[k].id = id THEN Merge(js[k], patch) ELSE js[k]]

\* What a patch says about status and progress, as recorded in `updates`.
Note(patch) ==
    [status   |-> IF "status" \in DOMAIN patch THEN patch.status ELSE "-",
     progress |-> IF "progress" \in DOMAIN patch THEN patch.progress ELSE NoProgress]

Logged(log, id, patch) == [log EXCEPT ![id] = Append(@, Note(patch))]

JobById(js, id) == js[CHOOSE k \in DOMAIN js : js[k].id = id]

\* The filter letting failed jobs through as well.
pendingJobsWithFailed(js) ==
    LET pend == SelectSeq(js, LAMBDA job : job.status \in {"pending", "error"})
    IN  [k \in DOMAIN pend |-> pend[k].id]

\* jobs.filter((job) => job.status === 'pending'), as the list of their ids
pendingJobs(js) ==
    LET pend == SelectSeq(js, LAMBDA job : job.status = "pending")
    IN  [k \in DOMAIN pend |-> pend[k].id]

\* ensureCodecsReady starting an initialisation on every call.
ensureCodecsReadyEveryCall(ref) == "pending"

\* if (!codecInitRef.current) codecInitRef.current = (async () => ...)()
ensureCodecsReady(ref) == IF ref = "null" THEN "pending" ELSE ref

StartPatch == [status |-> "processing", progress |-> 10, error |-> "none"]

\* The catch block also resetting the progress bar.
ErrorPatchResetsProgress == [status |-> "error", error |-> "message", progress |-> 0]

ErrorPatch == [status |-> "error", error |-> "message"]

\* The final update leaving the progress where the last milestone put it.
DonePatchKeepsProgress == [status |-> "done", blob |-> TRUE]

DonePatch == [status |-> "done", blob |-> TRUE, progress |-> 100]

\* pendingJobs.forEach((job) => { runConversion(job) }): the synchronous part
\* of each runConversion, up to its first await, in list order.
RECURSIVE StartEach(_, _)
StartEach(st, ids) ==
    IF ids = <<>> THEN st
    ELSE LET id == Head(ids)
         IN  StartEach(
                 [jobs       |-> updateJob(st.jobs, id, StartPatch),
                  updates    |-> Logged(st.updates, id, StartPatch),
                  runs       |-> [st.runs EXCEPT ![id] =
                                     [pc |-> "codecs", file |-> JobById(st.jobs, id).file]],
                  codecInit  |-> ensureCodecsReady(st.codecInit),
                  dispatched |-> Append(st.dispatched, id)],
                 Tail(ids))

AppState ==
    [jobs |-> jobs, updates |-> updates, runs |-> runs,
     codecInit |-> codecInit, dispatched |-> dispatched]

SetAppState(st) ==
    /\ jobs' = st.jobs
    /\ updates' = st.updates
    /\ runs' = st.runs
    /\ codecInit' = st.codecInit
    /\ dispatched' = st.dispatched

\* handleStartConversion, the Start conversion button (disabled while no job
\* is pending).
handleStartConversion ==
    /\ component = "app"
    /\ appVersion = "manual"
    /\ pendingJobs(jobs) # <<>>
    /\ SetAppState(StartEach(AppState, pendingJobs(jobs)))
    /\ UNCHANGED <<component, appVersion, nextId, workerVars, convertVars, detectVars, resizeVars, encodeVars, task>>

\* addFiles: one pending job per accepted file, appended in file order.  In
\* part_001 the effect on [jobs] then starts every pending job.
addFiles(files) ==
    /\ component = "app"
    /\ files # <<>>
    /\ nextId + Len(files) <= MaxJobs
    /\ LET additions == [k \in DOMAIN files |-> NewJob(nextId + k, files[k])]
           added     == [AppState EXCEPT !.jobs = jobs \o additions]
       IN  IF appVersion = "auto"
           THEN SetAppState(StartEach(added, pendingJobs(added.jobs)))
           ELSE SetAppState(added)
    /\ nextId' = nextId + Len(files)
    /\ UNCHANGED <<component, appVersion, workerVars, convertVars, detectVars, resizeVars, encodeVars, task>>

\* The codec initialisation promise settles.
CodecInitSettles(ok) ==
    /\ component = "app"
    /\ codecInit = "pending"
    /\ codecInit' = IF ok THEN "resolved" ELSE "rejected"
    /\ UNCHANGED <<component, appVersion, jobs, nextId, runs, dispatched, updates, workerVars, convertVars, detectVars, resizeVars, encodeVars, task>>

\* One continuation of runConversion: the patches it passes to updateJob, in
\* order, and where the invocation is afterwards.
Continue(id, patches, pc) ==
    /\ jobs' = LET RECURSIVE Apply(_, _)
                   Apply(js, ps) ==
                       IF ps = <<>> THEN js
                       ELSE Apply(updateJob(js, id, Head(ps)), Tail(ps))
               IN  Apply(jobs, patches)
    /\ updates' = LET RECURSIVE Log(_, _)
                      Log(log, ps) ==
                          IF ps = <<>> THEN log
                          ELSE Log(Logged(log, id, Head(ps)), Tail(ps))
                  IN  Log(updates, patches)
    /\ runs' = [runs EXCEPT ![id].pc = pc]
    /\ UNCHANGED <<component, appVersion, nextId, codecInit, dispatched, workerVars, convertVars, detectVars, resizeVars, encodeVars, task>>

\* await ensureCodecsReady() returns or throws.
RunAfterCodecs(id) ==
    /\ component = "app"
    /\ runs[id].pc = "codecs"
    /\ codecInit \in {"resolved", "rejected"}
    /\ IF codecInit = "resolved"
       THEN Continue(id, <<[progress |-> 35]>>, "decode")
       ELSE Continue(id, <<ErrorPatch>>, "finished")

\* await job.file.arrayBuffer() and await decodeSourceImage(...) return or
\* throw; then, in src/src/App.tsx, the synchronous resize and colour
\* conversion between the 55 and 75 updates, up to the await of the encoder.
\* In part_001 readImageData decodes and draws, and one update (65) follows.
RunAfterDecode(id) ==
    /\ component = "app"
    /\ runs[id].pc = "decode"
    /\ IF runs[id].file = "baddata"
       THEN Continue(id, <<ErrorPatch>>, "finished")
       ELSE IF appVersion = "auto"
       THEN IF runs[id].file = "nosurface"
            THEN Continue(id, <<ErrorPatch>>, "finished")
            ELSE Continue(id, <<[progress |-> 65]>>, "encode")
       ELSE IF runs[id].file = "nosurface"
            THEN Continue(id, <<[progress |-> 55], ErrorPatch>>, "finished")
            ELSE Continue(id, <<[progress |-> 55], [progress |-> 75]>>, "encode")

\* await encodeByFormat(...) returns or throws; then the blob and the name.
RunAfterEncode(id) ==
    /\ component = "app"
    /\ runs[id].pc = "encode"
    /\ IF runs[id].file = "badencode"
       THEN Continue(id, <<ErrorPatch>>, "finished")
       ELSE Continue(id, <<DonePatch>>, "finished")

\* The Reset queue button (handleClear in part_001): setJobs([]), disabled
\* while the list is empty.  Conversions in flight are not cancelled.
ResetQueue ==
    /\ component = "app"
    /\ jobs # <<>>
    /\ jobs' = <<>>
    /\ UNCHANGED <<component, appVersion, nextId, runs, codecInit, dispatched, updates, workerVars, convertVars, detectVars, resizeVars, encodeVars, task>>

NoRun == [pc |-> "none", file |-> "none"]

\* No ImageData has been handed to convertColorSpace.
ConvertAtRest ==
    /\ cImage = NoImage
    /\ cPrev = NoImage
    /\ cInput = <<>>
    /\ cTrail = <<>>

\* No buffer has been handed to detectJpegColorProfile.
DetectAtRest ==
    /\ bytes = <<>>
    /\ offset = 0
    /\ scanned = {}
    /\ detected = "scanning"

\* The App before any file is added.
ResizeAtRest ==
    /\ rImage = [obj |-> 0, width |-> 0, height |-> 0, pixels |-> "none"]
    /\ rPrev = rImage
    /\ rTrail = <<>>
    /\ rSurfaces = 0
    /\ rThrew = FALSE

EncodeAtRest ==
    /\ eImage = NoImage
    /\ eCalls = {}

TaskAtRest == task = [stage |-> "none"]

AppAtRest ==
    /\ jobs = <<>>
    /\ nextId = 0
    /\ runs = [i \in JobIds |-> NoRun]
    /\ codecInit = "null"
    /\ dispatched = <<>>
    /\ updates = [i \in JobIds |-> <<>>]

\* The worker script just loaded: codecInitPromise is created at module load.
WorkerAtRest ==
    /\ codecInitPromise = "pending"
    /\ handlers = [i \in JobIds |-> NoRun]
    /\ posted = [i \in JobIds |-> <<>>]

InitApp ==
    /\ component = "app"
    /\ appVersion \in {"manual", "auto"}
    /\ AppAtRest
    /\ WorkerAtRest
    /\ ConvertAtRest
    /\ DetectAtRest
    /\ ResizeAtRest
    /\ EncodeAtRest
    /\ TaskAtRest

NextApp ==
    \/ \E files \in SeqsUpTo(Files, MaxBatch) : addFiles(files)
    \/ handleStartConversion
    \/ \E ok \in BOOLEAN : CodecInitSettles(ok)
    \/ \E id \in JobIds : RunAfterCodecs(id)
    \/ \E id \in JobIds : RunAfterDecode(id)
    \/ \E id \in JobIds : RunAfterEncode(id)
    \/ ResetQueue

(***************************************************************************)
(* The conversion worker.  A request is modelled by its id and by what the *)
(* pipeline does with it: as a File, or "badpost" when posting the result  *)
(* throws.                                                                 *)
(***************************************************************************)
Requests == Files \cup {"badpost"}

ProgressMessage(id, n) == [type |-> "progress", id |-> id, progress |-> n]

DoneMessage(id) == [type |-> "done", id |-> id, progress |-> NoProgress]

ErrorMessage(id) == [type |-> "error", id |-> id, progress |-> NoProgress]

\* One continuation of the onmessage handler: the messages it posts, in
\* order, and where the invocation is afterwards.
Post(id, messages, pc) ==
    /\ posted' = [posted EXCEPT ![id] = @ \o messages]
    /\ handlers' = [handlers EXCEPT ![id].pc = pc]
    /\ UNCHANGED <<component, appVars, codecInitPromise, convertVars, detectVars, resizeVars, encodeVars, task>>

\* ctx.onmessage is called with a request: it runs to `await codecInitPromise`.
onmessage(id, request) ==
    /\ component = "worker"
    /\ handlers[id].pc = "none"
    /\ handlers' = [handlers EXCEPT ![id] = [pc |-> "codecs", file |-> request]]
    /\ UNCHANGED <<component, appVars, codecInitPromise, posted, convertVars, detectVars, resizeVars, encodeVars, task>>

\* codecInitPromise settles.
WorkerCodecsSettle(ok) ==
    /\ component = "worker"
    /\ codecInitPromise = "pending"
    /\ codecInitPromise' = IF ok THEN "resolved" ELSE "rejected"
    /\ UNCHANGED <<component, appVars, handlers, posted, convertVars, detectVars, resizeVars, encodeVars, task>>

\* await codecInitPromise returns or throws; progress 20; decodeSourceImage
\* runs to its await of the decoder.
WorkerAfterCodecs(id) ==
    /\ component = "worker"
    /\ handlers[id].pc = "codecs"
    /\ codecInitPromise \in {"resolved", "rejected"}
    /\ IF codecInitPromise = "resolved"
       THEN Post(id, <<ProgressMessage(id, 20)>>, "decode")
       ELSE Post(id, <<ErrorMessage(id)>>, "finished")

\* await decodeSourceImage returns or throws; progress 45; resize and colour
\* conversion; progress 70; encodeByFormat runs to its await of the encoder.
WorkerAfterDecode(id) ==
    /\ component = "worker"
    /\ handlers[id].pc = "decode"
    /\ IF handlers[id].file = "baddata"
       THEN Post(id, <<ErrorMessage(id)>>, "finished")
       ELSE IF handlers[id].file = "nosurface"
       THEN Post(id, <<ProgressMessage(id, 45), ErrorMessage(id)>>, "finished")
       ELSE Post(id, <<ProgressMessage(id, 45), ProgressMessage(id, 70)>>, "encode")

\* The done message leaving the worker before postMessage throws.
WorkerAfterEncodePostsBoth(id) ==
    /\ component = "worker"
    /\ handlers[id].pc = "encode"
    /\ IF handlers[id].file = "badencode"
       THEN Post(id, <<ErrorMessage(id)>>, "finished")
       ELSE IF handlers[id].file = "badpost"
       THEN Post(id, <<DoneMessage(id), ErrorMessage(id)>>, "finished")
       ELSE Post(id, <<DoneMessage(id)>>, "finished")

\* await encodeByFormat returns or throws; postMessage of the done message,
\* which posts nothing when it throws; the catch block posts the error.
WorkerAfterEncode(id) ==
    /\ component = "worker"
    /\ handlers[id].pc = "encode"
    /\ IF handlers[id].file \in {"badencode", "badpost"}
       THEN Post(id, <<ErrorMessage(id)>>, "finished")
       ELSE Post(id, <<DoneMessage(id)>>, "finished")

\* The worker itself ends (the browser terminates it, the WebAssembly
\* module aborts) while a request is awaiting: no statement of a handler runs
\* any more, the catch blocks included, and no later request is handled.
ContextFails ==
    /\ component = "worker"
    /\ \E id \in JobIds : handlers[id].pc \in {"codecs", "decode", "encode"}
    /\ handlers' = [id \in JobIds |->
                        IF handlers[id].pc = "finished" THEN handlers[id]
                        ELSE [handlers[id] EXCEPT !.pc = "lost"]]
    /\ UNCHANGED <<component, appVars, codecInitPromise, posted, convertVars, detectVars, resizeVars, encodeVars, task>>

InitWorker ==
    /\ component = "worker"
    /\ appVersion = "manual"
    /\ AppAtRest
    /\ WorkerAtRest
    /\ ConvertAtRest
    /\ DetectAtRest
    /\ ResizeAtRest
    /\ EncodeAtRest
    /\ TaskAtRest

NextWorker ==
    \/ \E id \in JobIds, request \in Requests : onmessage(id, request)
    \/ \E ok \in BOOLEAN : WorkerCodecsSettle(ok)
    \/ \E id \in JobIds : WorkerAfterCodecs(id)
    \/ \E id \in JobIds : WorkerAfterDecode(id)
    \/ \E id \in JobIds : WorkerAfterEncode(id)

(***************************************************************************)
(* Colour conversion.  The source computes in IEEE doubles; here a number  *)
(* x in [0, 1] is the integer nearest x * 10^8 and a matrix coefficient c  *)
(* is the integer c * 10^7 (every coefficient of the source has at most    *)
(* seven decimals).  The transfer functions are only ever applied to       *)
(* sample / 255 for a sample in 0..255, so each is the table of its 256    *)
(* values; Math.round(fromLinear(t) * 255) is the number of half-way       *)
(* points (the least t that rounds to k, for k in 1..255) at or below t,   *)
(* fromLinear being non-decreasing and clamped to [0, 1].                  *)
(***************************************************************************)
\* srgbToLinear(k / 255) for k = 0..255
SrgbToLinearTable ==
    <<
    0, 30353, 60705, 91058, 121411, 151763, 182116, 212469,
    242822, 273174, 303527, 334654, 367651, 402472, 439144, 477695,
    518152, 560539, 604883, 651209, 699541, 749903, 802319, 856813,
    913406, 972122, 1032982, 1096009, 1161225, 1228649, 1298303, 1370208,
    1444384, 1520851, 1599629, 1680738, 1764195, 1850022, 1938236, 2028856,
    2121901, 2217388, 2315337, 2415763, 2518686, 2624122, 2732089, 2842604,
    2955683, 3071344, 3189603, 3310477, 3433981, 3560131, 3688945, 3820437,
    3954624, 4091520, 4231141, 4373503, 4518620, 4666509, 4817182, 4970657,
    5126946, 5286065, 5448028, 5612849, 5780543, 5951124, 6124605, 6301002,
    6480327, 6662594, 6847817, 7036010, 7227185, 7421357, 7618538, 7818742,
    8021982, 8228271, 8437621, 8650046, 8865559, 9084171, 9305896, 9530747,
    9758735, 9989873, 10224173, 10461648, 10702310, 10946171, 11193243, 11443537,
    11697067, 11953843, 12213877, 12477182, 12743768, 13013648, 13286832, 13563333,
    13843162, 14126329, 14412847, 14702727, 14995979, 15292615, 15592646, 15896084,
    16202938, 16513219, 16826940, 17144110, 17464740, 17788842, 18116424, 18447499,
    18782077, 19120168, 19461783, 19806932, 20155625, 20507874, 20863687, 21223076,
    21586050, 21952620, 22322796, 22696587, 23074005, 23455058, 23839757, 24228112,
    24620133, 25015828, 25415209, 25818285, 26225066, 26635560, 27049779, 27467731,
    27889426, 28314874, 28744084, 29177065, 29613827, 30054379, 30498731, 30946892,
    31398871, 31854678, 32314321, 32777810, 33245154, 33716362, 34191442, 34670406,
    35153260, 35640014, 36130678, 36625260, 37123768, 37626212, 38132601, 38642943,
    39157248, 39675523, 40197778, 40724021, 41254261, 41788507, 42326767, 42869050,
    43415364, 43965717, 44520119, 45078578, 45641102, 46207700, 46778380, 47353150,
    47932018, 48514994, 49102085, 49693300, 50288646, 50888132, 51491767, 52099557,
    52711513, 53327640, 53947949, 54572446, 55201140, 55834039, 56471151, 57112483,
    57758044, 58407842, 59061884, 59720179, 60382734, 61049557, 61720656, 62396039,
    63075714, 63759687, 64447968, 65140564, 65837482, 66538730, 67244316, 67954247,
    68668531, 69387176, 70110189, 70837578, 71569350, 72305513, 73046074, 73791041,
    74540421, 75294222, 76052450, 76815115, 77582222, 78353779, 79129794, 79910274,
    80695226, 81484657, 82278575, 83076988, 83879901, 84687323, 85499261, 86315721,
    87136712, 87962240, 88792312, 89626935, 90466117, 91309865, 92158186, 93011086,
    93868573, 94730654, 95597335, 96468625, 97344529, 98225055, 99110210, 100000000
    >>

\* adobeRgbToLinear(k / 255) for k = 0..255
AdobeToLinearTable ==
    <<
    0, 510, 2342, 5712, 10754, 17566, 26231, 36817,
    49384, 63985, 80670, 99481, 120461, 143647, 169074, 196777,
    226785, 259130, 293840, 330941, 370460, 412421, 456849, 503766,
    553195, 605156, 659671, 716760, 776442, 838735, 903659, 971231,
    1041468, 1114387, 1190005, 1268338, 1349402, 1433212, 1519782, 1609129,
    1701265, 1796206, 1893965, 1994556, 2097991, 2204285, 2313449, 2425497,
    2540440, 2658292, 2779063, 2902766, 3029413, 3159014, 3291581, 3427125,
    3565657, 3707188, 3851728, 3999288, 4149878, 4303507, 4460188, 4619928,
    4782738, 4948627, 5117606, 5289683, 5464868, 5643170, 5824597, 6009160,
    6196867, 6387726, 6581747, 6778937, 6979306, 7182861, 7389612, 7599566,
    7812731, 8029116, 8248729, 8471576, 8697667, 8927009, 9159610, 9395477,
    9634617, 9877039, 10122749, 10371756, 10624065, 10879685, 11138622, 11400885,
    11666478, 11935411, 12207688, 12483318, 12762308, 13044663, 13330390, 13619497,
    13911990, 14207875, 14507158, 14809847, 15115947, 15425465, 15738407, 16054780,
    16374589, 16697841, 17024542, 17354697, 17688314, 18025397, 18365953, 18709988,
    19057507, 19408517, 19763023, 20121030, 20482546, 20847574, 21216122, 21588193,
    21963795, 22342933, 22725611, 23111836, 23501613, 23894947, 24291843, 24692308,
    25096345, 25503962, 25915162, 26329951, 26748333, 27170316, 27595902, 28025098,
    28457908, 28894338, 29334392, 29778076, 30225394, 30676351, 31130953, 31589203,
    32051107, 32516670, 32985897, 33458792, 33935359, 34415604, 34899532, 35387147,
    35878453, 36373455, 36872158, 37374567, 37880686, 38390519, 38904071, 39421346,
    39942350, 40467085, 40995558, 41527772, 42063731, 42603440, 43146903, 43694125,
    44245110, 44799861, 45358384, 45920683, 46486762, 47056624, 47630275, 48207718,
    48788957, 49373997, 49962842, 50555495, 51151962, 51752245, 52356350, 52964279,
    53576037, 54191628, 54811056, 55434326, 56061439, 56692402, 57327217, 57965889,
    58608421, 59254818, 59905082, 60559219, 61217231, 61879123, 62544898, 63214560,
    63888113, 64565561, 65246907, 65932155, 66621308, 67314371, 68011347, 68712240,
    69417053, 70125790, 70838455, 71555051, 72275581, 73000050, 73728461, 74460817,
    75197122, 75937380, 76681594, 77429767, 78181903, 78938006, 79698079, 80462125,
    81230147, 82002151, 82778137, 83558111, 84342075, 85130033, 85921988, 86717944,
    87517903, 88321870, 89129847, 89941838, 90757846, 91577875, 92401927, 93230007,
    94062116, 94898259, 95738439, 96582658, 97430921, 98283230, 99139589, 100000000
    >>

\* the least t with Math.round(linearToSrgb(t) * 255) >= k, for k = 1..255
LinearToSrgbSteps ==
    <<
    15177, 45530, 75882, 106235, 136588, 166940, 197293, 227646,
    257998, 288351, 318831, 350926, 384832, 420575, 458184, 497684,
    539103, 582466, 627797, 675123, 724467, 775854, 829305, 884846,
    942498, 1002283, 1064224, 1128343, 1194660, 1263196, 1333974, 1407012,
    1482331, 1559951, 1639891, 1722172, 1806812, 1893830, 1983245, 2075075,
    2169339, 2266054, 2365240, 2466912, 2571089, 2677789, 2787028, 2898823,
    3013191, 3130149, 3249713, 3371899, 3496725, 3624205, 3754356, 3887193,
    4022732, 4160989, 4301979, 4445717, 4592218, 4741497, 4893569, 5048449,
    5206151, 5366690, 5530081, 5696337, 5865472, 6037502, 6212439, 6390298,
    6571092, 6754836, 6941542, 7131224, 7323896, 7519571, 7718262, 7919982,
    8124745, 8332563, 8543449, 8757416, 8974477, 9194644, 9417931, 9644348,
    9873910, 10106628, 10342514, 10581581, 10823841, 11069305, 11317987, 11569897,
    11825049, 12083452, 12345120, 12610064, 12878296, 13149827, 13424668, 13702831,
    13984328, 14269169, 14557366, 14848931, 15143874, 15442206, 15743939, 16049083,
    16357650, 16669650, 16985094, 17303993, 17626357, 17952198, 18281525, 18614350,
    18950683, 19290535, 19633916, 19980835, 20331305, 20685335, 21042934, 21404115,
    21768885, 22137257, 22509239, 22884843, 23264077, 23646952, 24033478, 24423664,
    24817521, 25215058, 25616285, 26021212, 26429849, 26842204, 27258288, 27678111,
    28101681, 28529009, 28960103, 29394973, 29833629, 30276080, 30722336, 31172404,
    31626296, 32084020, 32545585, 33011000, 33480274, 33953418, 34430439, 34911346,
    35396150, 35884858, 36377479, 36874023, 37374498, 37878914, 38387278, 38899600,
    39415889, 39936153, 40460401, 40988642, 41520883, 42057135, 42597405, 43141703,
    43690035, 44242412, 44798842, 45359332, 45923892, 46492530, 47065253, 47642072,
    48222993, 48808025, 49397177, 49990456, 50587871, 51189431, 51795142, 52405014,
    53019055, 53637272, 54259674, 54886269, 55517064, 56152068, 56791289, 57434735,
    58082413, 58734332, 59390500, 60050924, 60715612, 61384572, 62057812, 62735340,
    63417163, 64103289, 64793727, 65488482, 66187565, 66890981, 67598738, 68310845,
    69027309, 69748137, 70473337, 71202916, 71936883, 72675244, 73418007, 74165179,
    74916769, 75672783, 76433228, 77198113, 77967444, 78741229, 79519476, 80302191,
    81089382, 81881056, 82677220, 83477882, 84283049, 85092728, 85906926, 86725650,
    87548909, 88376708, 89209055, 90045957, 90887421, 91733454, 92584063, 93439256,
    94299039, 95163419, 96032404, 96906000, 97784214, 98667054, 99554525
    >>

\* the least t with Math.round(linearToAdobeRgb(t) * 255) >= k, for k = 1..255
LinearToAdobeSteps ==
    <<
    112, 1244, 3826, 8018, 13934, 21663, 31280, 42850,
    56428, 72065, 89808, 109698, 131777, 156079, 182640, 211491,
    242664, 276188, 312090, 350397, 391134, 434326, 479996, 528166,
    578858, 632094, 687893, 746276, 807261, 870868, 937113, 1006015,
    1077591, 1151858, 1228832, 1308528, 1390963, 1476152, 1564108, 1654848,
    1748385, 1844733, 1943906, 2045917, 2150780, 2258508, 2369112, 2482606,
    2599002, 2718312, 2840548, 2965721, 3093844, 3224927, 3358981, 3496018,
    3636048, 3779082, 3925130, 4074204, 4226312, 4381466, 4539675, 4700949,
    4865298, 5032731, 5203257, 5376887, 5553629, 5733493, 5916487, 6102620,
    6291902, 6484341, 6679946, 6878724, 7080685, 7285837, 7494189, 7705747,
    7920521, 8138519, 8359748, 8584217, 8811932, 9042902, 9277135, 9514638,
    9755418, 9999483, 10246841, 10497498, 10751461, 11008739, 11269338, 11533265,
    11800527, 12071131, 12345084, 12622393, 12903065, 13187105, 13474522, 13765320,
    14059508, 14357092, 14658077, 14962471, 15270279, 15581508, 15896165, 16214255,
    16535785, 16860760, 17189188, 17521073, 17856422, 18195241, 18537536, 18883312,
    19232576, 19585333, 19941589, 20301350, 20664621, 21031408, 21401717, 21775553,
    22152922, 22533829, 22918280, 23306280, 23697835, 24092950, 24491630, 24893880,
    25299706, 25709114, 26122108, 26538693, 26958875, 27382658, 27810049, 28241051,
    28675671, 29113912, 29555781, 30001281, 30450418, 30903197, 31359622, 31819699,
    32283432, 32750826, 33221886, 33696616, 34175022, 34657108, 35142879, 35632338,
    36125492, 36622344, 37122900, 37627163, 38135138, 38646830, 39162243, 39681382,
    40204251, 40730855, 41261197, 41795283, 42333117, 42874702, 43420044, 43969147,
    44522015, 45078652, 45639062, 46203250, 46771220, 47342976, 47918522, 48497863,
    49081002, 49667944, 50258693, 50853252, 51451627, 52053820, 52659836, 53269680,
    53883354, 54500863, 55122211, 55747402, 56376440, 57009328, 57646071, 58286673,
    58931137, 59579467, 60231667, 60887741, 61547692, 62211525, 62879243, 63550851,
    64226350, 64905747, 65589043, 66276243, 66967351, 67662370, 68361304, 69064157,
    69770931, 70481632, 71196262, 71914824, 72637324, 73363763, 74094146, 74828476,
    75566757, 76308993, 77055186, 77805340, 78559459, 79317546, 80079605, 80845639,
    81615652, 82389646, 83167626, 83949594, 84735555, 85525511, 86319466, 87117423,
    87919386, 88725358, 89535341, 90349341, 91167359, 91989399, 92815464, 93645558,
    94479684, 95317845, 96160044, 97006285, 97856570, 98710904, 99569288
    >>

SRGB_TO_XYZ ==
    <<<<4124564, 3575761, 1804375>>,
      <<2126729, 7151522, 721750>>,
      <<193339, 1191920, 9503041>>>>

XYZ_TO_SRGB ==
    <<<<32406000, -15372000, -4986000>>,
      <<-9689000, 18758000, 415000>>,
      <<557000, -2040000, 10570000>>>>

ADOBE_TO_XYZ ==
    <<<<5767309, 1855540, 1881852>>,
      <<2973769, 6273491, 752741>>,
      <<270343, 706872, 9911085>>>>

XYZ_TO_ADOBE ==
    <<<<20413690, -5649464, -3446944>>,
      <<-9692660, 18760108, 415560>>,
      <<134474, -1183897, 10154096>>>>

\* The nine products of a row of a matrix and a vector, summed exactly and
\* brought back to the scale of the vector (rounded down): the operands are
\* split in two four-digit limbs so that no intermediate exceeds 2^31.
Dot(row, vector) ==
    LET c1(j) == row[j] \div 10000
        c0(j) == row[j] % 10000
        v1(j) == vector[j] \div 10000
        v0(j) == vector[j] % 10000
        hi    == c1(1) * v1(1) + c1(2) * v1(2) + c1(3) * v1(3)
        mid   == (c1(1) * v0(1) + c0(1) * v1(1)) + (c1(2) * v0(2) + c0(2) * v1(2))
                     + (c1(3) * v0(3) + c0(3) * v1(3))
        low   == c0(1) * v0(1) + c0(2) * v0(2) + c0(3) * v0(3)
    IN  hi * 10 + ((mid + (low \div 10000)) \div 1000)

\* multiplyMatrix with the matrix transposed.
multiplyMatrixTransposed(matrix, vector) ==
    <<Dot(<<matrix[1][1], matrix[2][1], matrix[3][1]>>, vector),
      Dot(<<matrix[1][2], matrix[2][2], matrix[3][2]>>, vector),
      Dot(<<matrix[1][3], matrix[2][3], matrix[3][3]>>, vector)>>

multiplyMatrix(matrix, vector) ==
    <<Dot(matrix[1], vector), Dot(matrix[2], vector), Dot(matrix[3], vector)>>

WorkingProfiles == {"srgb", "adobe-rgb"}

\* COLOR_PROFILE_DEFINITIONS[profile].toLinear(sample / 255)
toLinear(profile, sample) ==
    IF profile = "srgb" THEN SrgbToLinearTable[sample + 1] ELSE AdobeToLinearTable[sample + 1]

\* Math.round(COLOR_PROFILE_DEFINITIONS[profile].fromLinear(value) * 255)
fromLinear(profile, value) ==
    LET steps == IF profile = "srgb" THEN LinearToSrgbSteps ELSE LinearToAdobeSteps
    IN  Cardinality({k \in DOMAIN steps : steps[k] <= value})

rgbToXyz(profile) == IF profile = "srgb" THEN SRGB_TO_XYZ ELSE ADOBE_TO_XYZ

xyzToRgb(profile) == IF profile = "srgb" THEN XYZ_TO_SRGB ELSE XYZ_TO_ADOBE

\* The body of the loop of convertColorSpace, for the pixel <<r, g, b>>.
ConvertPixel(rgb, fromProfile, toProfile) ==
    LET linear == <<toLinear(fromProfile, rgb[1]), toLinear(fromProfile, rgb[2]),
                    toLinear(fromProfile, rgb[3])>>
        xyz    == multiplyMatrix(rgbToXyz(fromProfile), linear)
        target == multiplyMatrix(xyzToRgb(toProfile), xyz)
    IN  <<fromLinear(toProfile, target[1]), fromLinear(toProfile, target[2]),
          fromLinear(toProfile, target[3])>>

\* The loop of convertColorSpace writing the fourth sample of a pixel too.
ConvertDataOpaque(data, fromProfile, toProfile) ==
    LET pixel(n) == ConvertPixel(<<data[4 * n - 3], data[4 * n - 2], data[4 * n - 1]>>,
                                 fromProfile, toProfile)
    IN  [k \in DOMAIN data |->
            IF k % 4 = 0 THEN 255 ELSE pixel((k + 3) \div 4)[k % 4]]

\* for (let i = 0; i < data.length; i += 4): data[i], data[i + 1], data[i + 2]
\* are rewritten, data[i + 3] is not touched.
ConvertData(data, fromProfile, toProfile) ==
    LET pixel(n) == ConvertPixel(<<data[4 * n - 3], data[4 * n - 2], data[4 * n - 1]>>,
                                 fromProfile, toProfile)
    IN  [k \in DOMAIN data |->
            IF k % 4 = 0 THEN data[k] ELSE pixel((k + 3) \div 4)[k % 4]]

\* convertColorSpace answering the equal-profile case with a copy.
convertColorSpaceCopies(imageData, fromProfile, toProfile) ==
    IF fromProfile = toProfile THEN [imageData EXCEPT !.obj = @ + 1]
    ELSE [imageData EXCEPT !.data = ConvertData(imageData.data, fromProfile, toProfile)]

\* convertColorSpace: the ImageData it returns; `obj` names the object, which
\* is the argument itself, its data rewritten in place.
convertColorSpace(imageData, fromProfile, toProfile) ==
    IF fromProfile = toProfile THEN imageData
    ELSE [imageData EXCEPT !.data = ConvertData(imageData.data, fromProfile, toProfile)]

\* Sample levels of a channel: the ends, mid grey, and the levels of the
\* cyan-green corner where the 8-bit round trip loses most.
SampleLevels == {0, 13, 128, 246, 255}

SampleAlphas == {0, 200}

\* One-pixel images over the sample levels, and one two-pixel image.
SampleImages ==
    {[obj |-> 1, width |-> 1, height |-> 1, data |-> <<r, g, b, a>>] :
        r \in SampleLevels, g \in SampleLevels, b \in SampleLevels, a \in SampleAlphas}
    \cup {[obj |-> 1, width |-> 2, height |-> 1,
           data |-> <<13, 246, 0, 255, 128, 128, 128, 7>>]}

\* A call convertColorSpace(cImage, fromProfile, toProfile).
Convert(fromProfile, toProfile) ==
    /\ component = "convert"
    /\ Len(cTrail) < MaxConversions
    /\ cPrev' = cImage
    /\ cImage' = convertColorSpace(cImage, fromProfile, toProfile)
    /\ cTrail' = Append(cTrail, <<fromProfile, toProfile>>)
    /\ UNCHANGED <<component, appVars, workerVars, cInput, detectVars, resizeVars, encodeVars, task>>

InitConvert ==
    /\ component = "convert"
    /\ appVersion = "manual"
    /\ AppAtRest
    /\ WorkerAtRest
    /\ DetectAtRest
    /\ ResizeAtRest
    /\ EncodeAtRest
    /\ TaskAtRest
    /\ cImage \in SampleImages
    /\ cPrev = NoImage
    /\ cInput = cImage.data
    /\ cTrail = <<>>

NextConvert == \E fromProfile, toProfile \in WorkingProfiles : Convert(fromProfile, toProfile)

(***************************************************************************)
(* Colour profile detection.  A buffer is a sequence of bytes; offsets are *)
(* those of the source, from 0.                                            *)
(***************************************************************************)
Undefined == -1

\* bytes[i] of a Uint8Array: undefined beyond the end.
At(b, i) == IF i >= 0 /\ i < Len(b) THEN b[i + 1] ELSE Undefined

Min(a, b) == IF a < b THEN a ELSE b

\* bytes.subarray(begin, end): both ends are clamped to the length.
Subarray(b, begin, end) == SubSeq(b, Min(begin, Len(b)) + 1, Min(end, Len(b)))

\* Text as its bytes.  PROFILE_DECODER decodes one byte to one character and
\* ASCII bytes to themselves; the patterns below hold ASCII only.
ICC_PROFILE == <<73, 67, 67, 95, 80, 82, 79, 70, 73, 76, 69>>

LowerAdobe == <<97, 100, 111, 98, 101>>

LowerRgb == <<114, 103, 98>>

LowerSrgb == <<115, 114, 103, 98>>

LowerIec61966 == <<105, 101, 99, 54, 49, 57, 54, 54>>

\* The i flag: a character matches a letter of the pattern in either case.
Lower(byte) == IF byte \in 65..90 THEN byte + 32 ELSE byte

\* \s, over the characters one byte decodes to: tab, line feed, vertical
\* tab, form feed, carriage return, space, no-break space.
IsSpace(byte) == byte \in {9, 10, 11, 12, 13, 32, 160}

\* The lower-case word matches text at position i (from 1), ignoring case.
MatchesAt(text, i, word) ==
    /\ i >= 1
    /\ i + Len(word) - 1 <= Len(text)
    /\ \A k \in DOMAIN word : Lower(text[i + k - 1]) = word[k]

StartsWith(text, word) ==
    /\ Len(word) <= Len(text)
    /\ \A k \in DOMAIN word : text[k] = word[k]

\* /sRGB/i.test(payload), /IEC61966/i.test(payload)
TestWord(text, word) == \E i \in DOMAIN text : MatchesAt(text, i, word)

\* /Adobe\s?RGB/i.test(payload)
TestAdobeRgb(text) ==
    \E i \in DOMAIN text :
        /\ MatchesAt(text, i, LowerAdobe)
        /\ \/ MatchesAt(text, i + 5, LowerRgb)
           \/ /\ i + 5 <= Len(text)
              /\ IsSpace(text[i + 5])
              /\ MatchesAt(text, i + 6, LowerRgb)

\* The two tests in the other order.
ProfileOfPayloadSrgbFirst(payload) ==
    IF TestWord(payload, LowerSrgb) \/ TestWord(payload, LowerIec61966) THEN "srgb"
    ELSE IF TestAdobeRgb(payload) THEN "adobe-rgb"
    ELSE "none"

\* The two tests on the payload: the profile returned, or "none".
ProfileOfPayload(payload) ==
    IF TestAdobeRgb(payload) THEN "adobe-rgb"
    ELSE IF TestWord(payload, LowerSrgb) \/ TestWord(payload, LowerIec61966) THEN "srgb"
    ELSE "none"

\* if (marker === 0xe2) { ... }: the profile returned from inside the block,
\* or "none" when the scan goes on.
ProfileOfSegment(marker, segment) ==
    IF marker = 226 /\ Len(segment) >= 14 /\ StartsWith(Subarray(segment, 0, 11), ICC_PROFILE)
    THEN ProfileOfPayload(segment)
    ELSE "none"

\* The length test without its first half.
BadLengthOnlyTooLong(length, at, size) == at + length - 2 > size

\* The length test without its second half.
BadLengthOnlyTooShort(length, at, size) == length < 2

\* if (length < 2 || offset + length - 2 > bytes.length) break
BadLength(length, at, size) == length < 2 \/ at + length - 2 > size

\* if (bytes.length < 4 || bytes[0] !== 0xff || bytes[1] !== 0xd8) return
\* 'unknown'; let offset = 2
DetectEnter ==
    /\ component = "detect"
    /\ detected = "scanning"
    /\ offset = 0
    /\ IF Len(bytes) < 4 \/ At(bytes, 0) # 255 \/ At(bytes, 1) # 216
       THEN detected' = "unknown" /\ offset' = offset
       ELSE detected' = detected /\ offset' = 2
    /\ UNCHANGED <<component, appVars, workerVars, convertVars, resizeVars, encodeVars, task, bytes, scanned>>

\* One test of the loop condition and, when it holds, one iteration of the
\* loop, up to its continue, break or return or to the end of its body.
DetectScan ==
    /\ component = "detect"
    /\ detected = "scanning"
    /\ offset >= 2
    /\ LET marker  == At(bytes, offset + 1)
           length  == At(bytes, offset + 2) * 256 + At(bytes, offset + 3)
           segment == Subarray(bytes, offset + 4, offset + 4 + length - 2)
           profile == ProfileOfSegment(marker, segment)
       IN  IF ~(offset + 4 < Len(bytes))
           THEN detected' = "unknown" /\ UNCHANGED <<offset, scanned>>
           ELSE IF At(bytes, offset) # 255
           THEN offset' = offset + 1 /\ UNCHANGED <<detected, scanned>>
           ELSE IF marker = 218 \/ marker = 217
           THEN /\ detected' = "unknown"
                /\ offset' = offset + 2
                /\ scanned' = scanned \cup {offset}
           ELSE IF BadLength(length, offset + 4, Len(bytes))
           THEN /\ detected' = "unknown"
                /\ offset' = offset + 4
                /\ scanned' = scanned \cup {offset}
           ELSE IF profile # "none"
           THEN /\ detected' = profile
                /\ offset' = offset + 4
                /\ scanned' = scanned \cup {offset}
           ELSE /\ detected' = detected
                /\ offset' = offset + 4 + length - 2
                /\ scanned' = scanned \cup {offset}
    /\ UNCHANGED <<component, appVars, workerVars, convertVars, resizeVars, encodeVars, task, bytes>>

\* A marker segment: FF, the marker, the big-endian length of the length
\* field and the data, the data.
Segment(marker, data) ==
    <<255, marker, (Len(data) + 2) \div 256, (Len(data) + 2) % 256>> \o data

\* An ICC_PROFILE chunk: the identifier, a zero, the chunk number and count,
\* and the text.
IccData(text) == ICC_PROFILE \o <<0, 1, 1>> \o text

TextAdobeRgb == <<65, 100, 111, 98, 101, 32, 82, 71, 66>>

TextSrgb == <<115, 82, 71, 66>>

TextIec == <<105, 101, 99, 54, 49, 57, 54, 54>>

TextAdobeRgbNoSpaceAndSrgb == <<65, 100, 111, 98, 101, 82, 71, 66, 32, 115, 82, 71, 66>>

TextSrgbAndAdobeRgb == <<83, 82, 71, 66, 32, 97, 100, 111, 98, 101, 32, 114, 103, 98>>

TextNeither == <<80, 51>>

\* The pieces buffers are made of: segments with and without a profile, an
\* APP1 and an APP2 segment that only look like one, start-of-scan,
\* end-of-image, bytes that are no marker, a fill byte, and malformed
\* segments (length below 2, length beyond the end, identifier cut short).
Pieces ==
    {Segment(226, IccData(TextAdobeRgb)),
     Segment(226, IccData(TextSrgb)),
     Segment(226, IccData(TextIec)),
     Segment(226, IccData(TextAdobeRgbNoSpaceAndSrgb)),
     Segment(226, IccData(TextSrgbAndAdobeRgb)),
     Segment(226, IccData(TextNeither)),
     Segment(225, IccData(TextSrgb)),
     Segment(226, <<77, 80, 70, 0>> \o TextSrgb \o <<0, 0, 0, 0, 0, 0, 0, 0>>),
     Segment(224, <<74, 70, 73, 70, 0>>),
     <<255, 218, 0, 2>>,
     <<255, 217>>,
     <<0, 17>>,
     <<255>>,
     <<255, 224, 0, 1>>,
     <<255, 226, 255, 255>> \o IccData(TextSrgb),
     Segment(226, <<73, 67, 67, 95, 80, 82, 79, 70>>)}

\* What a buffer starts with: the start-of-image marker, nothing, or the
\* first bytes of a PNG file.
Starts == {<<255, 216>>, <<>>, <<137, 80>>}

RECURSIVE Joined(_)
Joined(pieces) == IF pieces = <<>> THEN <<>> ELSE Head(pieces) \o Joined(Tail(pieces))

Buffers == {start \o Joined(pieces) : start \in Starts, pieces \in SeqsUpTo(Pieces, MaxPieces)}

InitDetect ==
    /\ component = "detect"
    /\ appVersion = "manual"
    /\ AppAtRest
    /\ WorkerAtRest
    /\ ConvertAtRest
    /\ ResizeAtRest
    /\ EncodeAtRest
    /\ TaskAtRest
    /\ bytes \in Buffers
    /\ offset = 0
    /\ scanned = {}
    /\ detected = "scanning"

NextDetect == DetectEnter \/ DetectScan

(***************************************************************************)
(* Resampling.  shortEdge / currentShort and dimension * scale are IEEE    *)
(* doubles: a positive double is kept as its 53-bit significand, in four   *)
(* limbs <<t, a, b, c>> standing for t * 2^52 + a * 2^34 + b * 2^16 + c,   *)
(* and its exponent, so that no intermediate exceeds 2^31.                 *)
(***************************************************************************)
Limb18 == 262144

Limb16 == 65536

Max(a, b) == IF a > b THEN a ELSE b

\* The limbs with the carries moved up.
Carry(t, a, b, c) ==
    LET b2 == b + c \div Limb16
        a2 == a + b2 \div Limb18
    IN  <<t + a2 \div Limb18, a2 % Limb18, b2 % Limb18, c % Limb16>>

\* The e with 2^e <= s / c < 2^(e + 1).
Exponent(s, c) ==
    CHOOSE e \in -12..12 :
        IF e >= 0 THEN c * 2^e <= s /\ s < c * 2^(e + 1)
        ELSE c <= s * 2^(-e) /\ s * 2^(-e) < 2 * c

\* s / c in double arithmetic, s and c positive integers: the quotient by
\* long division, rounded to 53 bits, to nearest, ties to even.
Quotient(s, c) ==
    LET e   == Exponent(s, c)
        num == IF e >= 0 THEN s ELSE s * 2^(-e)
        den == IF e >= 0 THEN c * 2^e ELSE c
        r0  == num - den
        a   == (r0 * Limb18) \div den
        r1  == (r0 * Limb18) % den
        b   == (r1 * Limb18) \div den
        r2  == (r1 * Limb18) % den
        c0  == (r2 * Limb16) \div den
        r3  == (r2 * Limb16) % den
        up  == 2 * r3 > den \/ (2 * r3 = den /\ c0 % 2 = 1)
    IN  [exponent |-> e, limbs |-> Carry(1, a, b, IF up THEN c0 + 1 ELSE c0)]

\* d * x in double arithmetic, d a positive integer: the exact product,
\* rounded to 53 bits, to nearest, ties to even.  The limbs of the result
\* keep the exponent of x.
Times(d, x) ==
    LET m    == x.limbs
        p    == Carry(d * m[1], d * m[2], d * m[3], d * m[4])
        unit == CHOOSE u \in {2^q : q \in 0..12} : u <= p[1] /\ p[1] < 2 * u
        rest == p[4] % unit
        up   == 2 * rest > unit \/ (2 * rest = unit /\ (p[4] \div unit) % 2 = 1)
    IN  [exponent |-> x.exponent,
         limbs |-> Carry(p[1], p[2], p[3], p[4] - rest + (IF up THEN unit ELSE 0))]

\* Math.round(x): the nearest integer, a half going up.
MathRound(x) ==
    LET g      == x.exponent + 1
        halves == IF g >= 0 THEN x.limbs[1] * 2^g + x.limbs[2] \div 2^(18 - g)
                  ELSE x.limbs[1] \div 2^(-g)
    IN  (halves + 1) \div 2

\* const scale = shortEdge / currentShort;
\* Math.max(1, Math.round(dimension * scale))
TargetDimension(dimension, shortEdge, currentShort) ==
    LET scale == Quotient(shortEdge, currentShort)
    IN  Max(1, MathRound(Times(dimension, scale)))

\* The shortEdge argument: undefined, null, or a number.
NoShortEdge == {[kind |-> "undefined", value |-> 0], [kind |-> "null", value |-> 0]}

Number(n) == [kind |-> "number", value |-> n]

\* !shortEdge || shortEdge <= 0
Falsy(shortEdge) == shortEdge.kind # "number" \/ shortEdge.value <= 0

\* What getImageData returns: a new ImageData of the target size.
Drawn(imageData, targetWidth, targetHeight) ==
    [obj |-> imageData.obj + 1, width |-> targetWidth, height |-> targetHeight,
     pixels |-> "drawn"]

\* resizeImageData drawing in every case, a copy where the size stays.
resizeImageDataCopies(imageData, shortEdge, surfaceOk) ==
    LET currentShort == Min(imageData.width, imageData.height)
        keep         == Falsy(shortEdge) \/ currentShort = shortEdge.value
        targetWidth  == IF keep THEN imageData.width
                        ELSE TargetDimension(imageData.width, shortEdge.value, currentShort)
        targetHeight == IF keep THEN imageData.height
                        ELSE TargetDimension(imageData.height, shortEdge.value, currentShort)
    IN  IF ~surfaceOk THEN [image |-> imageData, surfaces |-> 0, threw |-> TRUE]
        ELSE [image |-> Drawn(imageData, targetWidth, targetHeight),
              surfaces |-> 2, threw |-> FALSE]

\* resizeImageData: the ImageData it returns, the surfaces createSurface
\* made, and whether createSurface threw (no OffscreenCanvas, no context).
resizeImageData(imageData, shortEdge, surfaceOk) ==
    LET same         == [image |-> imageData, surfaces |-> 0, threw |-> FALSE]
        currentShort == Min(imageData.width, imageData.height)
        targetWidth  == TargetDimension(imageData.width, shortEdge.value, currentShort)
        targetHeight == TargetDimension(imageData.height, shortEdge.value, currentShort)
    IN  IF Falsy(shortEdge) THEN same
        ELSE IF currentShort = shortEdge.value THEN same
        ELSE IF targetWidth = imageData.width /\ targetHeight = imageData.height THEN same
        ELSE IF ~surfaceOk THEN [image |-> imageData, surfaces |-> 0, threw |-> TRUE]
        ELSE [image |-> Drawn(imageData, targetWidth, targetHeight),
              surfaces |-> 2, threw |-> FALSE]

\* Widths and heights of decoded images, and the short edges asked for.
Dimensions == {2, 6, 15, 600, 800}

ShortEdges == NoShortEdge \cup {Number(n) : n \in {0, -1, 2, 6, 49, 300, 600}}

\* A call resizeImageData(rImage, shortEdge).
Resize(shortEdge, surfaceOk) ==
    /\ component = "resize"
    /\ Len(rTrail) < MaxResizes
    /\ Max(rImage.width, rImage.height) <= MaxSide
    /\ ~rThrew
    /\ LET result == resizeImageData(rImage, shortEdge, surfaceOk)
       IN  /\ rImage' = result.image
           /\ rSurfaces' = result.surfaces
           /\ rThrew' = result.threw
    /\ rPrev' = rImage
    /\ rTrail' = Append(rTrail, shortEdge)
    /\ UNCHANGED <<component, appVars, workerVars, convertVars, detectVars, encodeVars, task>>

InitResize ==
    /\ component = "resize"
    /\ appVersion = "manual"
    /\ AppAtRest
    /\ WorkerAtRest
    /\ ConvertAtRest
    /\ DetectAtRest
    /\ EncodeAtRest
    /\ TaskAtRest
    /\ rImage \in {[obj |-> 1, width |-> w, height |-> h, pixels |-> "decoded"] :
                      w \in Dimensions, h \in Dimensions}
    /\ rPrev = rImage
    /\ rTrail = <<>>
    /\ rSurfaces = 0
    /\ rThrew = FALSE

NextResize == \E shortEdge \in ShortEdges, surfaceOk \in BOOLEAN : Resize(shortEdge, surfaceOk)

(***************************************************************************)
(* Encoding.  An ArrayBuffer is a sequence of bytes, byte i of the buffer  *)
(* at position i + 1.  Typed arrays are little-endian, as DataView is      *)
(* told to be.                                                             *)
(***************************************************************************)
\* setUint16(offset, n, true) and setUint32(offset, n, true): the bytes.
Uint16(n) == <<n % 256, (n \div 256) % 256>>

Uint32(n) == <<n % 256, (n \div 256) % 256, (n \div 65536) % 256, (n \div 16777216) % 256>>

\* The buffer with the bytes b written from byte offset `at`.
Written(buffer, at, b) ==
    [i \in DOMAIN buffer |-> IF i > at /\ i <= at + Len(b) THEN b[i - at] ELSE buffer[i]]

RECURSIVE WrittenAll(_, _)
WrittenAll(buffer, writes) ==
    IF writes = <<>> THEN buffer
    ELSE WrittenAll(Written(buffer, Head(writes).at, Head(writes).bytes), Tail(writes))

\* The loop copying three samples and then stepping over three.
rgbDataPacked(imageData) ==
    [k \in 1..(imageData.width * imageData.height * 3) |->
        IF k <= Len(imageData.data) THEN imageData.data[k] ELSE 0]

\* rgbData: width * height * 3 zero bytes, then for src = 0, 4, 8, ... below
\* data.length the samples src, src + 1, src + 2 written at dst = 0, 3, 6, ...
rgbData(imageData) ==
    [k \in 1..(imageData.width * imageData.height * 3) |->
        LET src    == 4 * ((k - 1) \div 3)
            sample == src + ((k - 1) % 3)
        IN  IF src < Len(imageData.data) /\ sample < Len(imageData.data)
            THEN imageData.data[sample + 1]
            ELSE 0]

entryCount == 10

headerSize == 8

\* The size of the IFD counted without its next-IFD offset.
ifdSizeWithoutNext == 2 + entryCount * 12

ifdSize == 2 + entryCount * 12 + 4

bitsPerSampleSize == 6

bitsPerSampleOffset == headerSize + ifdSize

imageOffset == bitsPerSampleOffset + bitsPerSampleSize

ifdStart == 8

\* writeEntry with the tag written where the value goes.
writeEntryValueFirst(index, tag, type, count, value) ==
    [at |-> ifdStart + 2 + index * 12,
     bytes |-> Uint16(value) \o Uint16(type) \o Uint32(count) \o Uint32(tag)]

\* writeEntry(index, tag, type, count, value): the twelve bytes and their place.
writeEntry(index, tag, type, count, value) ==
    [at |-> ifdStart + 2 + index * 12,
     bytes |-> Uint16(tag) \o Uint16(type) \o Uint32(count) \o Uint32(value)]

\* encodeTiff: the buffer of totalSize zero bytes after the writes of the
\* header, the entry count, the ten entries, the next-IFD offset, the
\* bits-per-sample array and the pixel data, in the order of the source.
encodeTiff(imageData) ==
    LET width     == imageData.width
        height    == imageData.height
        rgb       == rgbData(imageData)
        totalSize == imageOffset + Len(rgb)
        buffer    == [i \in 1..totalSize |-> 0]
    IN  WrittenAll(buffer,
            <<[at |-> 0, bytes |-> <<73>>],
              [at |-> 1, bytes |-> <<73>>],
              [at |-> 2, bytes |-> Uint16(42)],
              [at |-> 4, bytes |-> Uint32(8)],
              [at |-> ifdStart, bytes |-> Uint16(entryCount)],
              writeEntry(0, 256, 4, 1, width),
              writeEntry(1, 257, 4, 1, height),
              writeEntry(2, 258, 3, 3, bitsPerSampleOffset),
              writeEntry(3, 259, 3, 1, 1),
              writeEntry(4, 262, 3, 1, 2),
              writeEntry(5, 273, 4, 1, imageOffset),
              writeEntry(6, 277, 3, 1, 3),
              writeEntry(7, 278, 4, 1, height),
              writeEntry(8, 279, 4, 1, Len(rgb)),
              writeEntry(9, 284, 3, 1, 1),
              [at |-> ifdStart + 2 + entryCount * 12, bytes |-> Uint32(0)],
              [at |-> bitsPerSampleOffset, bytes |-> Uint16(8) \o Uint16(8) \o Uint16(8)],
              [at |-> imageOffset, bytes |-> rgb]>>)

\* mapAvifQuality without the clamp to 0..100.
mapAvifQualityUnclamped(uiValue) ==
    LET encoderValue == IF uiValue <= 0 THEN 0
                        ELSE MathRound(Times(63, Quotient(uiValue, 100)))
    IN  Max(1, encoderValue)

\* mapAvifQuality, for an integer uiValue: the quotient and the product are
\* doubles.
mapAvifQuality(uiValue) ==
    LET normalized   == Min(100, Max(0, uiValue))
        encoderValue == IF normalized = 0 THEN 0
                        ELSE MathRound(Times(63, Quotient(normalized, 100)))
    IN  Max(1, encoderValue)

\* FORMAT_OPTIONS: the target types, and supportsQuality of each.
TargetTypes == {"image/avif", "image/webp", "image/jpeg", "image/png", "image/tiff"}

supportsQuality(targetType) == targetType \in {"image/avif", "image/webp", "image/jpeg"}

\* What an encoder of the codec packages returns: bytes that are some
\* function of the ImageData and the options it was called with.
Encoded(encoder, imageData, options) ==
    [by |-> encoder, data |-> imageData.data, width |-> imageData.width,
     height |-> imageData.height, options |-> options]

\* The call an encodeByFormat makes: the encoder and the options passed.
Invocation(encoder, options) == [encoder |-> encoder, options |-> options]

NoOptions == [none |-> TRUE]

\* encodeByFormat passing the quality to the PNG encoder as well.
encodeByFormatQualityToPng(imageData, request) ==
    LET call ==
            IF request.targetType = "image/avif"
            THEN Invocation("encodeAvif", [quality |-> mapAvifQuality(request.targetQuality),
                                           enableSharpYUV |-> TRUE, chromaDeltaQ |-> TRUE,
                                           speed |-> 5])
            ELSE IF request.targetType = "image/webp"
            THEN Invocation("encodeWebp", [quality |-> request.targetQuality, method |-> 6,
                                           alpha_quality |-> 90, use_sharp_yuv |-> 1])
            ELSE IF request.targetType = "image/jpeg"
            THEN Invocation("encodeJpeg", [quality |-> request.targetQuality,
                                           progressive |-> TRUE])
            ELSE IF request.targetType = "image/png"
            THEN Invocation("encodePng", [bitDepth |-> 8, quality |-> request.targetQuality])
            ELSE Invocation("encodeTiff", NoOptions)
    IN  [invocation |-> call,
         output |-> IF call.encoder = "encodeTiff" THEN encodeTiff(imageData)
                    ELSE Encoded(call.encoder, imageData, call.options)]

\* encodeByFormat: the encoder it calls with the options it passes, and the
\* bytes that encoder returns.
encodeByFormat(imageData, request) ==
    LET call ==
            IF request.targetType = "image/avif"
            THEN Invocation("encodeAvif", [quality |-> mapAvifQuality(request.targetQuality),
                                           enableSharpYUV |-> TRUE, chromaDeltaQ |-> TRUE,
                                           speed |-> 5])
            ELSE IF request.targetType = "image/webp"
            THEN Invocation("encodeWebp", [quality |-> request.targetQuality, method |-> 6,
                                           alpha_quality |-> 90, use_sharp_yuv |-> 1])
            ELSE IF request.targetType = "image/jpeg"
            THEN Invocation("encodeJpeg", [quality |-> request.targetQuality,
                                           progressive |-> TRUE])
            ELSE IF request.targetType = "image/png"
            THEN Invocation("encodePng", [bitDepth |-> 8])
            ELSE Invocation("encodeTiff", NoOptions)
    IN  [invocation |-> call,
         output |-> IF call.encoder = "encodeTiff" THEN encodeTiff(imageData)
                    ELSE Encoded(call.encoder, imageData, call.options)]

\* Pixels images are made of: opaque red, and one with four different
\* samples.
SamplePixels == {<<255, 0, 0, 255>>, <<1, 2, 3, 4>>}

\* The images of 1 or 2 by 1 or 2 pixels over those.
EncodeImages ==
    {[obj |-> 1, width |-> w, height |-> h, data |-> Joined(pixels)] :
        <<w, h, pixels>> \in
            {t \in (1..2) \X (1..2) \X SeqsUpTo(SamplePixels, 4) : Len(t[3]) = t[1] * t[2]}}

Qualities == {0, 50, 100}

EncodeRequests == [targetType : TargetTypes, targetQuality : Qualities]

\* A call encodeByFormat(eImage, request).
Encode(request) ==
    /\ component = "encode"
    /\ Cardinality(eCalls) < MaxEncodes
    /\ LET result == encodeByFormat(eImage, request)
       IN  eCalls' = eCalls \cup {[request |-> request, invocation |-> result.invocation,
                                   output |-> result.output]}
    /\ UNCHANGED <<component, appVars, workerVars, convertVars, detectVars, resizeVars, eImage, task>>

InitEncode ==
    /\ component = "encode"
    /\ appVersion = "manual"
    /\ AppAtRest
    /\ WorkerAtRest
    /\ ConvertAtRest
    /\ DetectAtRest
    /\ ResizeAtRest
    /\ TaskAtRest
    /\ eImage \in EncodeImages
    /\ eCalls = {}

NextEncode == \E request \in EncodeRequests : Encode(request)

\* Values of targetQuality, those of the 0..100 scale and some outside it.
WideQualities == (0 - 2)..102

\* encodeByFormat called for AVIF on one image, over all those qualities.
InitAvifQuality ==
    /\ component = "encode"
    /\ appVersion = "manual"
    /\ AppAtRest
    /\ WorkerAtRest
    /\ ConvertAtRest
    /\ DetectAtRest
    /\ ResizeAtRest
    /\ TaskAtRest
    /\ eImage = [obj |-> 1, width |-> 1, height |-> 1, data |-> <<1, 2, 3, 4>>]
    /\ eCalls = {}

NextAvifQuality ==
    \E q \in WideQualities : Encode([targetType |-> "image/avif", targetQuality |-> q])

(***************************************************************************)
(* One conversion, step by step: ctx.onmessage of the worker and           *)
(* runConversion of the App, with the values that pass from step to step.  *)
(* Pixels are not followed here, only which ImageData object each step     *)
(* receives and returns.                                                   *)
(***************************************************************************)
\* detectJpegColorProfile as a function of the buffer: the loop from `at`.
RECURSIVE ScanFrom(_, _)
ScanFrom(b, at) ==
    LET marker  == At(b, at + 1)
        length  == At(b, at + 2) * 256 + At(b, at + 3)
        segment == Subarray(b, at + 4, at + 4 + length - 2)
        profile == ProfileOfSegment(marker, segment)
    IN  IF ~(at + 4 < Len(b)) THEN "unknown"
        ELSE IF At(b, at) # 255 THEN ScanFrom(b, at + 1)
        ELSE IF marker = 218 \/ marker = 217 THEN "unknown"
        ELSE IF BadLength(length, at + 4, Len(b)) THEN "unknown"
        ELSE IF profile # "none" THEN profile
        ELSE ScanFrom(b, at + 4 + length - 2)

detectJpegColorProfile(b) ==
    IF Len(b) < 4 \/ At(b, 0) # 255 \/ At(b, 1) # 216 THEN "unknown" ELSE ScanFrom(b, 2)

\* resolveWorkingProfile passing the detected profile on as it is.
resolveWorkingProfileAsDetected(profile) == profile

resolveWorkingProfile(profile) == IF profile = "adobe-rgb" THEN "adobe-rgb" ELSE "srgb"

\* decodeSourceImage calling the decoder before it scans the bytes.
decodeSourceImageDecoderFirst(sourceType, buffer) ==
    IF sourceType = "image/jpeg"
    THEN [profile |-> detectJpegColorProfile(buffer),
          calls |-> <<[fn |-> "decodeJpeg", buffer |-> buffer],
                      [fn |-> "detectJpegColorProfile", buffer |-> buffer]>>]
    ELSE [profile |-> "srgb", calls |-> <<[fn |-> "decodePng", buffer |-> buffer]>>]

\* decodeSourceImage up to its await: the profile, and the calls made.
decodeSourceImage(sourceType, buffer) ==
    IF sourceType = "image/jpeg"
    THEN [profile |-> detectJpegColorProfile(buffer),
          calls |-> <<[fn |-> "detectJpegColorProfile", buffer |-> buffer],
                      [fn |-> "decodeJpeg", buffer |-> buffer]>>]
    ELSE [profile |-> "srgb", calls |-> <<[fn |-> "decodePng", buffer |-> buffer]>>]

\* What the decoder resolves to: a new ImageData.
Decoded == [obj |-> 1, width |-> 800, height |-> 600, pixels |-> "decoded"]

\* convertColorSpace on the object: the argument itself, rewritten in place
\* when the profiles differ.
Recoloured(imageData, fromProfile, toProfile) ==
    IF fromProfile = toProfile THEN imageData ELSE [imageData EXCEPT !.pixels = "converted"]

SourceTypes == {"image/jpeg", "image/png"}

\* Buffers of requests: JPEG bytes with an Adobe RGB profile, with an sRGB
\* profile, with no profile, and bytes that do not start as a JPEG does but
\* hold an Adobe RGB profile segment.
TaskBuffers ==
    {<<255, 216>> \o Segment(226, IccData(TextAdobeRgb)),
     <<255, 216>> \o Segment(224, <<74, 70, 73, 70, 0>>) \o Segment(226, IccData(TextSrgb)),
     <<255, 216>> \o Segment(224, <<74, 70, 73, 70, 0>>) \o <<255, 218, 0, 2>>,
     <<137, 80>> \o Segment(226, IccData(TextAdobeRgb))}

TaskRequests ==
    [sourceType : SourceTypes, targetType : TargetTypes, targetColorSpace : WorkingProfiles,
     targetQuality : {80}, shortEdge : {[kind |-> "null", value |-> 0], Number(300)},
     buffer : TaskBuffers, file : Files]

NothingReported == [status |-> "none", mime |-> "none", sourceProfile |-> "none"]

\* The catch block: an error message (worker), an error patch (App).
TaskFails == task' = [task EXCEPT !.stage = "finished", !.reported.status = "error"]

\* await codecInitPromise (worker), await ensureCodecsReady() (App), then
\* decodeSourceImage up to its await of the decoder.
TaskAfterCodecs(ok) ==
    /\ component = "task"
    /\ task.stage = "codecs"
    /\ IF ~ok THEN TaskFails
       ELSE LET decoding == decodeSourceImage(task.request.sourceType, task.request.buffer)
            IN  task' = [task EXCEPT !.stage = "decode",
                                     !.profile = decoding.profile,
                                     !.calls = @ \o decoding.calls]
    /\ UNCHANGED <<component, appVars, workerVars, convertVars, detectVars, resizeVars, encodeVars>>

\* The decoder settles; resizeImageData, resolveWorkingProfile and
\* convertColorSpace; encodeByFormat up to its await of the encoder.  The
\* App puts the profile on the job before resizing.
TaskAfterDecode ==
    /\ component = "task"
    /\ task.stage = "decode"
    /\ LET request        == task.request
           resizing       == resizeImageData(Decoded, request.shortEdge,
                                             request.file # "nosurface")
           workingProfile == resolveWorkingProfile(task.profile)
           converted      == Recoloured(resizing.image, workingProfile,
                                        request.targetColorSpace)
           noted          == IF task.host = "app"
                             THEN [task.reported EXCEPT !.sourceProfile = task.profile]
                             ELSE task.reported
       IN  IF request.file = "baddata" THEN TaskFails
           ELSE IF resizing.threw
           THEN task' = [task EXCEPT
                    !.stage = "finished",
                    !.reported = [noted EXCEPT !.status = "error"],
                    !.calls = @ \o <<[fn |-> "resizeImageData", image |-> Decoded.obj,
                                      shortEdge |-> request.shortEdge]>>]
           ELSE task' = [task EXCEPT
                    !.stage = "encode",
                    !.reported = noted,
                    !.working = workingProfile,
                    !.image = converted,
                    !.calls = @ \o <<[fn |-> "resizeImageData", image |-> Decoded.obj,
                                      shortEdge |-> request.shortEdge],
                                     [fn |-> "resolveWorkingProfile", profile |-> task.profile],
                                     [fn |-> "convertColorSpace", image |-> resizing.image.obj,
                                      fromProfile |-> workingProfile,
                                      toProfile |-> request.targetColorSpace],
                                     [fn |-> "encodeByFormat", image |-> converted.obj,
                                      targetType |-> request.targetType,
                                      targetQuality |-> request.targetQuality]>>]
    /\ UNCHANGED <<component, appVars, workerVars, convertVars, detectVars, resizeVars, encodeVars>>

\* The done message of the worker, the done patch and the Blob of the App,
\* carrying the working profile.
DoneReportWorkingProfile(t) ==
    [status |-> "done", mime |-> t.request.targetType, sourceProfile |-> t.working]

\* The done message of the worker: mime and sourceProfile; the done patch of
\* the App: the Blob's type, the sourceProfile put on the job after decoding.
DoneReport(t) ==
    [status |-> "done", mime |-> t.request.targetType,
     sourceProfile |-> IF t.host = "app" THEN t.reported.sourceProfile ELSE t.profile]

\* The encoder settles; the result is reported.
TaskAfterEncode ==
    /\ component = "task"
    /\ task.stage = "encode"
    /\ IF task.request.file = "badencode" THEN TaskFails
       ELSE task' = [task EXCEPT !.stage = "finished", !.reported = DoneReport(task)]
    /\ UNCHANGED <<component, appVars, workerVars, convertVars, detectVars, resizeVars, encodeVars>>

InitTask ==
    /\ component = "task"
    /\ appVersion = "manual"
    /\ AppAtRest
    /\ WorkerAtRest
    /\ ConvertAtRest
    /\ DetectAtRest
    /\ ResizeAtRest
    /\ EncodeAtRest
    /\ \E host \in {"worker", "app"}, request \in TaskRequests :
           task = [stage |-> "codecs", host |-> host, request |-> request,
                   profile |-> "none", working |-> "none", image |-> Decoded,
                   calls |-> <<>>, reported |-> NothingReported]

NextTask == (\E ok \in BOOLEAN : TaskAfterCodecs(ok)) \/ TaskAfterDecode \/ TaskAfterEncode

\* The function of the buffer is what the scan, step by step, arrives at.
ScanAgrees == detected # "scanning" => detected = detectJpegColorProfile(bytes)

Succeeded == task.stage = "finished" /\ task.reported.status = "done"

\* The profile as detected, before resolution: of a JPEG what the scan of
\* its bytes finds, of a PNG sRGB.
DetectedProfile ==
    IF task.request.sourceType = "image/jpeg"
    THEN detectJpegColorProfile(task.request.buffer)
    ELSE "srgb"

CallsOf(fn) == {i \in 1..Len(task.calls) : task.calls[i].fn = fn}

\* C16: a successful run reports a mime equal to the requested target type
\* and a sourceProfile equal to the profile as detected, before resolution:
\* unknown is reported as unknown.
C16_MimeAndDetectedProfile ==
    Succeeded =>
        /\ task.reported.mime = task.request.targetType
        /\ task.reported.sourceProfile = DetectedProfile

\* A successful run on a JPEG with no profile: unknown is reported, and the
\* conversion worked from sRGB.
C16_Witness ==
    /\ Succeeded
    /\ task.request.sourceType = "image/jpeg"
    /\ task.reported.sourceProfile = "unknown"
    /\ \E i \in CallsOf("convertColorSpace") : task.calls[i].fromProfile = "srgb"

\* The functions called so far, in the order of the calls.
CallOrder == [k \in DOMAIN task.calls |-> task.calls[k].fn]

IsPrefix(short, long) ==
    /\ Len(short) <= Len(long)
    /\ \A k \in DOMAIN short : short[k] = long[k]

Decoders == {"decodeJpeg", "decodePng"}

\* The steps after decoding, and what each is handed: the decoded image to
\* resizeImageData, what that returned to convertColorSpace, what that
\* returned to encodeByFormat; nothing of them while the decoder runs.
LaterStepsInOrder ==
    /\ task.stage = "decode" =>
           /\ task.calls # <<>>
           /\ task.calls[Len(task.calls)].fn \in Decoders
           /\ CallsOf("resizeImageData") = {}
    /\ \A k \in CallsOf("resizeImageData") : task.calls[k].image = Decoded.obj
    /\ \A k \in CallsOf("convertColorSpace") :
           task.calls[k].image = task.image.obj
    /\ \A k \in CallsOf("encodeByFormat") :
           /\ k = Len(task.calls)
           /\ task.calls[k].image = task.image.obj
    /\ \A k \in CallsOf("detectJpegColorProfile") :
           task.calls[k].buffer = task.request.buffer

C22_WorkingProfileNeverUnknown ==
    /\ \A k \in CallsOf("convertColorSpace") :
        /\ task.calls[k].fromProfile \in WorkingProfiles
        /\ DetectedProfile = "adobe-rgb" => task.calls[k].fromProfile = "adobe-rgb"
        /\ DetectedProfile \in {"srgb", "unknown"} => task.calls[k].fromProfile = "srgb"
        /\ task.request.sourceType = "image/png" => task.calls[k].fromProfile = "srgb"
    /\ task.request.sourceType = "image/png" => CallsOf("detectJpegColorProfile") = {}

\* C22 witness: a PNG request whose bytes would scan as Adobe RGB was
\* converted from sRGB.
C22_Witness ==
    /\ task.request.sourceType = "image/png"
    /\ detectJpegColorProfile(task.request.buffer) = "adobe-rgb"
    /\ \E k \in CallsOf("convertColorSpace") : task.calls[k].fromProfile = "srgb"

(***************************************************************************)
(* The scheduler claims, on the App.                                       *)
(***************************************************************************)
InFlight == {"codecs", "decode", "encode"}

\* The conversions running at the same time.
Busy == {i \in JobIds : runs[i].pc \in InFlight}

\* C1: the number of conversions running at the same time never exceeds
\* the pool size N.
C1_CapacityBound == Cardinality(Busy) <= PoolSize

\* C2: when M > N tasks were submitted to an idle pool and none has
\* completed, the tasks dispatched are the first N enqueued, in enqueue
\* order (ids are handed out in enqueue order), and the others are still
\* pending.
C2_FifoFirstN ==
    (/\ component = "app"
     /\ nextId > PoolSize
     /\ dispatched # <<>>
     /\ \A i \in JobIds : runs[i].pc # "finished")
    => /\ Len(dispatched) = PoolSize
       /\ \A k \in DOMAIN dispatched : dispatched[k] = k
       /\ \A k \in DOMAIN jobs : jobs[k].id > PoolSize => jobs[k].status = "pending"

\* A conversion has ended, in done or in error, and its last update has
\* been made.
NotificationHandled == \E i \in JobIds : runs[i].pc = "finished"

Queued == {k \in DOMAIN jobs : jobs[k].status = "pending"}

\* C17: once a done or error notification has been handled, no state has
\* both an idle context (fewer than N conversions running) and a job still
\* queued.
C17_WorkConserving ==
    (component = "app" /\ NotificationHandled)
    => ~(Cardinality(Busy) < PoolSize /\ Queued # {})

\* C18: a task that was running when its execution context failed gets an
\* error notification.
C18_CrashReported ==
    \A id \in JobIds :
        (handlers[id].pc = "lost" /\ handlers[id].file # "none")
        => \E k \in DOMAIN posted[id] : posted[id][k] = [type |-> "error", id |-> id, progress |-> NoProgress]

(***************************************************************************)
(* The pipeline claims, on the App's updates and the worker's messages.    *)
(***************************************************************************)
Count(log, Test(_)) == Cardinality({k \in DOMAIN log : Test(log[k])})

Last(log) == log[Len(log)]

IsTerminalNote(n) == n.status \in {"done", "error"}

IsTerminalMessage(m) == m.type \in {"done", "error"}

\* What a conversion of this file comes to, given how initialisation went.
Outcome(file, init) == IF file = "ok" /\ init = "resolved" THEN "done" ELSE "error"

StatusNotes(log) == SelectSeq(log, LAMBDA n : n.status # "-")

ProgressValues(log) ==
    LET with == SelectSeq(log, LAMBDA n : n.progress # NoProgress)
    IN  [k \in DOMAIN with |-> with[k].progress]

\* A job as the updates made for its own id leave it.
StatusFrom(log) == IF StatusNotes(log) = <<>> THEN "pending" ELSE Last(StatusNotes(log)).status

ProgressFrom(log) == IF ProgressValues(log) = <<>> THEN 0 ELSE Last(ProgressValues(log))

Settled == {"resolved", "rejected"}

\* C24: the codec initialisation is started at most once, in the App (the
\* promise kept in codecInitRef, once there, is never replaced) and in the
\* worker (the promise made when the module is loaded), however many
\* conversions are started; a conversion reaches its decoder or its encoder
\* only after that initialisation has completed.
C24_InitialisedOnce ==
    [][/\ codecInit # "null" => codecInit' # "null"
       /\ codecInit \in Settled => codecInit' = codecInit
       /\ codecInitPromise \in Settled => codecInitPromise' = codecInitPromise
       /\ \A id \in JobIds :
            /\ runs'[id].pc \in {"decode", "encode"} => codecInit' = "resolved"
            /\ handlers'[id].pc \in {"decode", "encode"} => codecInitPromise' = "resolved"
            /\ (runs[id].pc = "none" /\ runs'[id].pc # "none") =>
                   /\ runs'[id].pc = "codecs"
                   /\ codecInit' = (IF codecInit = "null" THEN "pending" ELSE codecInit)]_vars

\* C24 witness: two conversions of the App, started one after the other,
\* have both passed the one initialisation and are decoding.
C24_Witness ==
    /\ codecInit = "resolved"
    /\ dispatched = <<1, 2>>
    /\ \A id \in {1, 2} : runs[id].pc = "decode"

\* The requests whose handler has started and has not yet posted its done
\* or error message.
Handling == {id \in JobIds : handlers[id].pc \in InFlight}

\* C25: a worker runs one pipeline at a time: no request's handler is
\* between its steps while another request's handler is.
C25_OnePipelineAtATime ==
    component = "worker" => Cardinality(Handling) <= 1

AvifCalls == {call \in eCalls : call.request.targetType = "image/avif"}

\* round(q * 63 / 100), halves upwards, for q >= 0.
RoundedSixtyThreeHundredths(q) == (2 * 63 * q + 100) \div 200

\* C26: the quality passed to the AVIF encoder is an integer in 1..63 for
\* every targetQuality, that of 0 below 0 and that of 100 above 100; it is
\* max(1, round(q * 63 / 100)) for q in 0..100, and it does not decrease as
\* targetQuality grows.
C26_AvifQualityRange ==
    /\ \A call \in AvifCalls :
        LET q       == call.request.targetQuality
            quality == call.invocation.options.quality
        IN  /\ call.invocation.encoder = "encodeAvif"
            /\ quality \in 1..63
            /\ q \in 0..100 => quality = Max(1, RoundedSixtyThreeHundredths(q))
            /\ q < 0 => quality = 1
            /\ q > 100 => quality = 63
    /\ \A one, other \in AvifCalls :
        one.request.targetQuality <= other.request.targetQuality
            => one.invocation.options.quality <= other.invocation.options.quality

\* C26 witness: AVIF was asked for with quality 50, halfway between 31 and
\* 32, and with a quality above 100: the encoder got 32 and 63.
C26_Witness ==
    \E one, other \in AvifCalls :
        /\ one.request.targetQuality = 50
        /\ one.invocation.options.quality = 32
        /\ other.request.targetQuality > 100
        /\ other.invocation.options.quality = 63

\* C27: the scan ends on every buffer: an iteration of the loop either
\* leaves the loop or moves the offset forward, by 1 from a byte that is
\* not FF and by at least 4 over a marker segment; a marker and a length are
\* read inside the buffer only, and the offset never passes its end.
C27_ScanTerminates ==
    /\ <>(detected # "scanning")
    /\ [](/\ offset <= Len(bytes)
          /\ \A at \in scanned : at >= 2 /\ at + 3 < Len(bytes))
    /\ [][(offset >= 2 /\ detected' = "scanning") =>
              /\ offset + 4 < Len(bytes)
              /\ At(bytes, offset) # 255 => offset' = offset + 1
              /\ At(bytes, offset) = 255 => offset' >= offset + 4]_vars

\* C27 witness: the scan stepped over two bytes that are not FF, one by
\* one, read the segment after them and ended there.
C27_Witness ==
    /\ bytes = <<255, 216, 0, 17>> \o Segment(226, IccData(TextSrgb))
    /\ scanned = {4}
    /\ detected = "srgb"

\* C28: an update made by a conversion in flight leaves the list as long as
\* it was, with the same ids in the same places, and changes no job but its
\* own: when its job is no longer in the list (the queue was reset), the list
\* stays as it is.
C28_LateUpdateHarmless ==
    [][\A id \in JobIds :
          (runs[id].pc \in InFlight /\ runs'[id] # runs[id]) =>
              /\ Len(updates'[id]) > Len(updates[id])
              /\ Len(jobs') = Len(jobs)
              /\ \A k \in DOMAIN jobs :
                    /\ jobs'[k].id = jobs[k].id
                    /\ jobs[k].id # id => jobs'[k] = jobs[k]
              /\ (\A k \in DOMAIN jobs : jobs[k].id # id) => jobs' = jobs]_vars

\* C28 witness: job 1 was removed by a reset, its conversion has run to its
\* end all the same, and job 2, added after the reset, is in the list
\* alone, still being converted.
C28_Witness ==
    /\ appVersion = "manual"
    /\ Len(jobs) = 1
    /\ jobs[1].id = 2 /\ jobs[1].status = "processing"
    /\ dispatched = <<1, 2>>
    /\ runs[1].pc = "finished"
    /\ Len(updates[1]) = 5

StatusMoves ==
    {<<"pending", "processing">>, <<"processing", "done">>, <<"processing", "error">>}

Started(seq) == {seq[k] : k \in DOMAIN seq}

\* C19: the status of a job only moves pending -> processing -> done or
\* pending -> processing -> error; a conversion is started only for a job
\* that is pending, so at most once for each job, and never again for a job
\* that failed.
C19_StatusOnlyForward ==
    [][/\ \A k \in DOMAIN jobs, l \in DOMAIN jobs' :
            (jobs[k].id = jobs'[l].id /\ jobs[k].status # jobs'[l].status)
            => <<jobs[k].status, jobs'[l].status>> \in StatusMoves
       /\ \A n \in DOMAIN dispatched' :
            n > Len(dispatched) =>
                /\ dispatched'[n] \notin Started(dispatched)
                /\ \A m \in DOMAIN dispatched' : dispatched'[m] = dispatched'[n] => m = n
                /\ \E k \in DOMAIN jobs' :
                       /\ jobs'[k].id = dispatched'[n]
                       /\ k \in DOMAIN jobs => jobs[k].status = "pending"
       /\ \A id \in JobIds :
            Len(StatusNotes(updates'[id])) <= 2]_vars

\* C19 witness: with Start conversion, a failed job stays failed, started
\* once, next to a job started after it that is being converted.
C19_Witness ==
    /\ appVersion = "manual"
    /\ \E k, l \in DOMAIN jobs :
        /\ jobs[k].status = "error"
        /\ jobs[l].status = "processing"
        /\ dispatched = <<jobs[k].id, jobs[l].id>>
        /\ Len(StatusNotes(updates[jobs[k].id])) = 2

\* C3: a failing task yields exactly one error notification, for its own
\* id, and every task ends as its own file and the codec initialisation
\* decide, whatever the other tasks did; a job in the list is changed only
\* by the updates made for its own id.
C3_Isolation ==
    /\ \A id \in JobIds :
        /\ Count(updates[id], LAMBDA n : n.status = "error") <= 1
        /\ runs[id].pc = "finished" =>
            /\ Last(updates[id]).status = Outcome(runs[id].file, codecInit)
            /\ Count(updates[id], LAMBDA n : n.status = "error") =
                   (IF Outcome(runs[id].file, codecInit) = "error" THEN 1 ELSE 0)
        /\ Count(posted[id], LAMBDA m : m.type = "error") <= 1
        /\ \A k \in DOMAIN posted[id] : posted[id][k].id = id
        /\ handlers[id].pc = "finished" =>
            /\ Last(posted[id]).type = Outcome(handlers[id].file, codecInitPromise)
            /\ Count(posted[id], LAMBDA m : m.type = "error") =
                   (IF Outcome(handlers[id].file, codecInitPromise) = "error" THEN 1 ELSE 0)
    /\ \A k \in DOMAIN jobs :
        /\ jobs[k].status = StatusFrom(updates[jobs[k].id])
        /\ jobs[k].progress = ProgressFrom(updates[jobs[k].id])

\* C3 witness: one job failed on its data while another, started with it or
\* after it, is done and both are in the list.
C3_Witness ==
    \E k, l \in DOMAIN jobs :
        /\ jobs[k].status = "error" /\ jobs[k].file = "baddata"
        /\ jobs[l].status = "done"
        /\ runs[jobs[k].id].pc = "finished"

\* C4: every request gets at most one terminal outcome, done or error and
\* never both, nothing follows it, a finished request has exactly one, and a
\* request one of whose steps fails ends in an error for its id with no
\* result delivered.
C4_OneTerminalOutcome ==
    /\ \A id \in JobIds :
        /\ Count(posted[id], IsTerminalMessage) <= 1
        /\ \A k \in DOMAIN posted[id] : IsTerminalMessage(posted[id][k]) => k = Len(posted[id])
        /\ handlers[id].pc = "finished" =>
            /\ Count(posted[id], IsTerminalMessage) = 1
            /\ (handlers[id].file # "ok" \/ codecInitPromise = "rejected") =>
                /\ Last(posted[id]) = ErrorMessage(id)
                /\ Count(posted[id], LAMBDA m : m.type = "done") = 0
        /\ Count(updates[id], IsTerminalNote) <= 1
        /\ \A k \in DOMAIN updates[id] : IsTerminalNote(updates[id][k]) => k = Len(updates[id])
        /\ runs[id].pc = "finished" =>
            /\ Count(updates[id], IsTerminalNote) = 1
            /\ (runs[id].file # "ok" \/ codecInit = "rejected") =>
                /\ Last(updates[id]).status = "error"
                /\ Count(updates[id], LAMBDA n : n.status = "done") = 0
    /\ \A k \in DOMAIN jobs : jobs[k].blob => jobs[k].status = "done"

\* C4 witness: posting the result threw in the worker, and the request ended
\* in an error after all three progress messages.
C4_Witness ==
    \E id \in JobIds :
        /\ handlers[id] = [pc |-> "finished", file |-> "badpost"]
        /\ Len(posted[id]) = 4

NonDecreasing(values) ==
    \A k, l \in DOMAIN values : k <= l => values[k] <= values[l]

MessageProgress(log) ==
    LET with == SelectSeq(log, LAMBDA m : m.type = "progress")
    IN  [k \in DOMAIN with |-> with[k].progress]

\* C5: the progress values reported for a task, and those its job shows,
\* never decrease, on the paths that end in an error too.
C5_ProgressMonotone ==
    /\ \A id \in JobIds :
        /\ NonDecreasing(ProgressValues(updates[id]))
        /\ NonDecreasing(MessageProgress(posted[id]))
    /\ \A k \in DOMAIN jobs :
        \A l \in DOMAIN ProgressValues(updates[jobs[k].id]) :
            ProgressValues(updates[jobs[k].id])[l] <= jobs[k].progress

\* C5 witness: a job that failed while resampling, after its 55 update, is
\* in the list.
C5_Witness ==
    \E k \in DOMAIN jobs :
        /\ jobs[k].status = "error"
        /\ jobs[k].progress = 55
        /\ Len(updates[jobs[k].id]) = 4

\* C6: every progress notification carries an integer in 0..99, and a job
\* shows 100 exactly when it is done.
C6_HundredMeansDone ==
    /\ \A id \in JobIds :
        /\ \A k \in DOMAIN posted[id] :
               posted[id][k].type = "progress" => posted[id][k].progress \in 0..99
        /\ \A k \in DOMAIN updates[id] :
               (updates[id][k].status # "done" /\ updates[id][k].progress # NoProgress)
                   => updates[id][k].progress \in 0..99
    /\ \A k \in DOMAIN jobs : (jobs[k].progress = 100) <=> (jobs[k].status = "done")

\* C6 witness: a job is done and shows 100 while another is still being
\* processed below 100.
C6_Witness ==
    \E k, l \in DOMAIN jobs :
        /\ jobs[k].status = "done" /\ jobs[k].progress = 100
        /\ jobs[l].status = "processing" /\ jobs[l].progress = 75

(***************************************************************************)
(* The colour conversion claims.                                           *)
(***************************************************************************)
Abs(x) == IF x < 0 THEN -x ELSE x

RoundTrip == <<<<"srgb", "adobe-rgb">>, <<"adobe-rgb", "srgb">>>>

\* The largest difference between the samples now and the samples at the
\* start, over the pixels, in channel c (1 red, 2 green, 3 blue).
ChannelWithin(c, tolerance) ==
    \A k \in DOMAIN cInput : k % 4 = c => Abs(cImage.data[k] - cInput[k]) <= tolerance

\* C9: convert(p, X, X) returns the buffer object it was given with every
\* sample, alpha included, as it was before the call.
C9_SameProfileIdentity ==
    (cTrail # <<>> /\ cTrail[Len(cTrail)][1] = cTrail[Len(cTrail)][2])
        => /\ cImage.obj = cPrev.obj
           /\ cImage.data = cPrev.data
           /\ cImage.width = cPrev.width /\ cImage.height = cPrev.height

\* C9 witness: an image that a first conversion changed went through a
\* conversion from Adobe RGB to Adobe RGB.
C9_Witness ==
    /\ cTrail = <<<<"srgb", "adobe-rgb">>, <<"adobe-rgb", "adobe-rgb">>>>
    /\ cInput = <<13, 246, 0, 200>>
    /\ cImage.data = <<139, 246, 58, 200>>

C11_AlphaAndShapeKept ==
    (cTrail # <<>> /\ cTrail[Len(cTrail)][1] # cTrail[Len(cTrail)][2])
        => /\ cImage.obj = cPrev.obj
           /\ cImage.width = cPrev.width /\ cImage.height = cPrev.height
           /\ Len(cImage.data) = Len(cPrev.data)
           /\ Len(cImage.data) = 4 * cImage.width * cImage.height
           /\ \A k \in DOMAIN cImage.data :
                  /\ k % 4 = 0 => cImage.data[k] = cPrev.data[k]
                  /\ cImage.data[k] \in 0..255

\* C11 witness: the two-pixel image went from sRGB to Adobe RGB; the colour
\* samples of its first pixel changed and the alphas 255 and 7 are in place.
C11_Witness ==
    /\ cTrail = <<<<"srgb", "adobe-rgb">>>>
    /\ cPrev.data = <<13, 246, 0, 255, 128, 128, 128, 7>>
    /\ cImage.data[1] # 13
    /\ cImage.data[4] = 255 /\ cImage.data[8] = 7

(***************************************************************************)
(* The resampling claims.                                                  *)
(***************************************************************************)
\* The shortEdge of the last call of resizeImageData.
LastEdge == rTrail[Len(rTrail)]

\* The last call was made with a positive integer other than the shorter
\* side of the image it was given, and returned.
Resampled ==
    /\ rTrail # <<>>
    /\ ~rThrew
    /\ LastEdge.kind = "number"
    /\ LastEdge.value > 0
    /\ LastEdge.value # Min(rPrev.width, rPrev.height)

\* round(n / c) for positive integers, a half going up.
RoundedQuotient(n, c) == (2 * n + c) \div (2 * c)

\* out is an integer nearest to n / c (either one when n / c is a half).
NearestToQuotient(out, n, c) == 2 * Abs(out * c - n) <= c

\* C12, as stated: a call that resamples returns an image whose width and
\* height are max(1, round(width * shortEdge / min(width, height))) and
\* max(1, round(height * shortEdge / min(width, height))), whose shorter
\* side is shortEdge; 800x600 with shortEdge 300 gives 400x300.
C12_TargetDimensionsRounded ==
    Resampled =>
        LET short == Min(rPrev.width, rPrev.height)
        IN  /\ rImage.width = Max(1, RoundedQuotient(rPrev.width * LastEdge.value, short))
            /\ rImage.height = Max(1, RoundedQuotient(rPrev.height * LastEdge.value, short))
            /\ Min(rImage.width, rImage.height) = LastEdge.value
            /\ (rPrev.width = 800 /\ rPrev.height = 600 /\ LastEdge.value = 300)
                   => (rImage.width = 400 /\ rImage.height = 300)

\* C12, what the code does keep: a call that resamples returns a new image
\* whose width and height are at least 1 and are integers nearest to
\* width * shortEdge / min(width, height) and
\* height * shortEdge / min(width, height), the lower or the upper one when
\* the quotient lies halfway between two integers; its shorter side is
\* shortEdge; 800x600 with shortEdge 300 gives 400x300.
C12_TargetDimensionsNearest ==
    Resampled =>
        LET short == Min(rPrev.width, rPrev.height)
        IN  /\ rImage.obj # rPrev.obj
            /\ rImage.width >= 1 /\ rImage.height >= 1
            /\ NearestToQuotient(rImage.width, rPrev.width * LastEdge.value, short)
            /\ NearestToQuotient(rImage.height, rPrev.height * LastEdge.value, short)
            /\ Min(rImage.width, rImage.height) = LastEdge.value
            /\ (rPrev.width = 800 /\ rPrev.height = 600 /\ LastEdge.value = 300)
                   => (rImage.width = 400 /\ rImage.height = 300)

\* C12, the failing case: a 6x15 image resampled to short edge 49 came out
\* 49x122, where 15 * 49 / 6 is 122.5.
C12_HalfwayRoundedDown ==
    /\ Resampled
    /\ rPrev.width = 6 /\ rPrev.height = 15
    /\ LastEdge.value = 49
    /\ rImage.width = 49 /\ rImage.height = 122
    /\ rSurfaces = 2

\* C13: a call with shortEdge undefined, null, zero, negative or equal to
\* the shorter side of the image returns the object it was given, with its
\* size and pixels as they were, and creates no drawing surface.
C13_NoResampleIdentity ==
    (/\ rTrail # <<>>
     /\ \/ LastEdge.kind # "number"
        \/ LastEdge.value <= 0
        \/ LastEdge.value = Min(rPrev.width, rPrev.height))
        => /\ rImage = rPrev
           /\ rSurfaces = 0
           /\ ~rThrew

\* C13 witness: an 800x600 image was resampled to 400x300, and the result
\* was then passed with shortEdge 300 and came back as the same object.
C13_Witness ==
    /\ Len(rTrail) = 2
    /\ rTrail[1] = Number(300) /\ rTrail[2] = Number(300)
    /\ rPrev.obj = 2 /\ rPrev.width = 400 /\ rPrev.height = 300
    /\ rImage = rPrev
    /\ rSurfaces = 0

(***************************************************************************)
(* The encoding claims.  The TIFF bytes are read back as a TIFF reader     *)
(* would: little-endian numbers at byte offsets, entries found by tag.     *)
(***************************************************************************)
ReadUint16(b, at) == b[at + 1] + 256 * b[at + 2]

ReadUint32(b, at) ==
    b[at + 1] + 256 * b[at + 2] + 65536 * b[at + 3] + 16777216 * b[at + 4]

\* The offsets of the entries of the IFD of b that carry the tag.
EntriesWithTag(b, tag) ==
    LET ifd == ReadUint32(b, 4)
    IN  {at \in {ifd + 2 + 12 * i : i \in 0..(ReadUint16(b, ifd) - 1)} :
            ReadUint16(b, at) = tag}

\* The value of the one entry with the tag.
TagValue(b, tag) == ReadUint32(b, (CHOOSE at \in EntriesWithTag(b, tag) : TRUE) + 8)

TiffCalls == {call \in eCalls : call.request.targetType = "image/tiff"}

\* C14: the bytes encodeTiff returns begin with 49 49 2A 00 and the
\* little-endian 32-bit IFD offset 8; the IFD has one entry with tag 256 and
\* one with tag 257, holding the width and the height of the image (2 and 2
\* for a 2x2 image); every call on the same image returns the same bytes.
C14_TiffHeaderAndSize ==
    \A call \in TiffCalls :
        /\ SubSeq(call.output, 1, 4) = <<73, 73, 42, 0>>
        /\ ReadUint32(call.output, 4) = 8
        /\ Cardinality(EntriesWithTag(call.output, 256)) = 1
        /\ Cardinality(EntriesWithTag(call.output, 257)) = 1
        /\ TagValue(call.output, 256) = eImage.width
        /\ TagValue(call.output, 257) = eImage.height
        /\ (eImage.width = 2 /\ eImage.height = 2)
               => (TagValue(call.output, 256) = 2 /\ TagValue(call.output, 257) = 2)
        /\ \A other \in TiffCalls : other.output = call.output

\* C14 witness: the 2x2 opaque red image was encoded as TIFF twice, with
\* different qualities, to 152 bytes each time.
C14_Witness ==
    /\ eImage.width = 2 /\ eImage.height = 2
    /\ eImage.data = <<255, 0, 0, 255, 255, 0, 0, 255, 255, 0, 0, 255, 255, 0, 0, 255>>
    /\ Cardinality(TiffCalls) = 2
    /\ \A call \in TiffCalls : Len(call.output) = 152

\* C15: the pixel data of the TIFF, from the strip offset to the end, has
\* width * height * 3 bytes; byte k of it (from 0) is sample
\* 4 * (k div 3) + (k mod 3) of the image; just before it stand the six
\* bytes of the 16-bit values 8, 8, 8.
C15_TiffPayload ==
    \A call \in TiffCalls :
        LET out     == call.output
            start   == TagValue(out, 273)
            payload == SubSeq(out, start + 1, Len(out))
        IN  /\ Len(payload) = eImage.width * eImage.height * 3
            /\ \A k \in 0..(Len(payload) - 1) :
                   payload[k + 1] = eImage.data[4 * (k \div 3) + (k % 3) + 1]
            /\ SubSeq(out, start - 5, start) = <<8, 0, 8, 0, 8, 0>>
            /\ ReadUint16(out, start - 6) = 8
            /\ ReadUint16(out, start - 4) = 8
            /\ ReadUint16(out, start - 2) = 8

\* C15 witness: a 2x1 image of an opaque red pixel and the pixel
\* (1, 2, 3, 4) was encoded; the pixel data is FF 00 00 01 02 03.
C15_Witness ==
    /\ eImage.data = <<255, 0, 0, 255, 1, 2, 3, 4>>
    /\ \E call \in TiffCalls :
           SubSeq(call.output, 141, Len(call.output)) = <<255, 0, 0, 1, 2, 3>>

\* The tags of the entries in the IFD of b, in the order of the entries.
TagsInOrder(b) ==
    LET ifd == ReadUint32(b, 4)
    IN  [i \in 1..ReadUint16(b, ifd) |-> ReadUint16(b, ifd + 2 + 12 * (i - 1))]

\* C23: the IFD at offset 8 declares 10 entries of 12 bytes with strictly
\* ascending tags and ends with a zero next-IFD offset; the regions follow
\* one another without gap or overlap: bits-per-sample at 134, the strip at
\* 140, of width * height * 3 bytes, ending where the file ends.
C23_IfdLayout ==
    \A call \in TiffCalls :
        LET out  == call.output
            ifd  == ReadUint32(out, 4)
            tags == TagsInOrder(out)
            next == ifd + 2 + 12 * ReadUint16(out, ifd)
        IN  /\ ifd = 8
            /\ ReadUint16(out, ifd) = 10
            /\ \A i, j \in DOMAIN tags : i < j => tags[i] < tags[j]
            /\ tags = <<256, 257, 258, 259, 262, 273, 277, 278, 279, 284>>
            /\ ReadUint32(out, next) = 0
            /\ next + 4 = 134
            /\ TagValue(out, 258) = 134
            /\ TagValue(out, 258) + 6 = TagValue(out, 273)
            /\ TagValue(out, 273) = 140
            /\ TagValue(out, 279) = eImage.width * eImage.height * 3
            /\ TagValue(out, 273) + TagValue(out, 279) = Len(out)

\* C23 witness: a 1x2 image was encoded as TIFF to 146 bytes, a strip of 6
\* bytes at 140.
C23_Witness ==
    /\ eImage.width = 1 /\ eImage.height = 2
    /\ \E call \in TiffCalls :
        /\ Len(call.output) = 146
        /\ TagValue(call.output, 279) = 6

\* C20: two calls of encodeByFormat on the same image for the same target
\* type, a type whose supportsQuality is false (PNG, TIFF), invoke the same
\* encoder with the same options and return the same bytes, whatever their
\* targetQuality.
C20_QualityIgnored ==
    \A one, other \in eCalls :
        (/\ one.request.targetType = other.request.targetType
         /\ ~supportsQuality(one.request.targetType))
            => /\ one.invocation = other.invocation
               /\ one.output = other.output

\* C20 witness: the image was encoded as PNG with quality 0 and with
\* quality 100.
C20_Witness ==
    \E one, other \in eCalls :
        /\ one.request = [targetType |-> "image/png", targetQuality |-> 0]
        /\ other.request = [targetType |-> "image/png", targetQuality |-> 100]
        /\ one.invocation.encoder = "encodePng"

(***************************************************************************)
(* The detection claims.  The segments are described on the bytes, apart   *)
(* from the scan: a segment the scan reached is one at an offset where the *)
(* scan read a marker.                                                     *)
(***************************************************************************)
StartsWithSoi == Len(bytes) >= 2 /\ bytes[1] = 255 /\ bytes[2] = 216

\* The length field of the segment whose FF is at offset o.
DeclaredLength(o) == bytes[o + 3] * 256 + bytes[o + 4]

\* At offset o are FF, a marker that is neither start-of-scan nor
\* end-of-image, and a length field.
SegmentAt(o) ==
    /\ o + 4 <= Len(bytes)
    /\ bytes[o + 1] = 255
    /\ bytes[o + 2] \notin {217, 218}

\* The segment at o lies in the buffer, with a length of 2 or more.
WellFormedAt(o) ==
    /\ SegmentAt(o)
    /\ DeclaredLength(o) >= 2
    /\ o + 2 + DeclaredLength(o) <= Len(bytes)

\* The bytes of the segment at o after its length field.
DataAt(o) == SubSeq(bytes, o + 5, o + 2 + DeclaredLength(o))

\* A well-formed APP2 segment that begins with ICC_PROFILE.
IccSegmentAt(o) ==
    /\ WellFormedAt(o)
    /\ bytes[o + 2] = 226
    /\ Len(DataAt(o)) >= 11
    /\ SubSeq(DataAt(o), 1, 11) = ICC_PROFILE

\* text contains the lower-case word, ignoring case.
Contains(text, word) ==
    \E i \in 1..Len(text) :
        /\ i + Len(word) - 1 <= Len(text)
        /\ \A k \in 1..Len(word) : Lower(text[i + k - 1]) = word[k]

\* text contains "Adobe RGB", ignoring case.
ContainsAdobeSpaceRgb(text) == Contains(text, LowerAdobe \o <<32>> \o LowerRgb)

\* text contains "Adobe" and "RGB", ignoring case, with nothing or one
\* white-space character between them.
ContainsAdobeRgb(text) ==
    \/ Contains(text, LowerAdobe \o LowerRgb)
    \/ \E space \in {9, 10, 11, 12, 13, 32, 160} :
           Contains(text, LowerAdobe \o <<space>> \o LowerRgb)

ContainsSrgb(text) == Contains(text, LowerSrgb) \/ Contains(text, LowerIec61966)

Terminated == \E o \in scanned : bytes[o + 2] \in {217, 218}

\* C8: detect returns sRGB, Adobe RGB or Unknown and reads no further than
\* the buffer goes.  It returns Unknown for a buffer that does not start
\* with FF D8; it returns a profile only from an ICC_PROFILE APP2 segment
\* with matching text that the scan reached without passing a start-of-scan
\* or end-of-image marker; it returns Unknown when the scan reaches a
\* segment whose declared length goes beyond the end of the buffer.
C8_UnknownOnMalformed ==
    /\ detected \in {"scanning", "srgb", "adobe-rgb", "unknown"}
    /\ offset <= Len(bytes)
    /\ \A o \in scanned : o + 2 <= Len(bytes)
    /\ ~StartsWithSoi => (offset = 0 /\ scanned = {} /\ detected \in {"scanning", "unknown"})
    /\ detected \in {"srgb", "adobe-rgb"} =>
           /\ ~Terminated
           /\ \E o \in scanned :
                  /\ IccSegmentAt(o)
                  /\ ContainsAdobeRgb(DataAt(o)) \/ ContainsSrgb(DataAt(o))
                  /\ \A p \in scanned : p <= o
    /\ \A o \in scanned :
           (SegmentAt(o) /\ o + 2 + DeclaredLength(o) > Len(bytes)) => detected = "unknown"

\* C8 witness: the scan went over a segment and then reached an APP2
\* segment that begins with ICC_PROFILE, holds "sRGB" and declares more
\* bytes than the buffer has left; detect returned Unknown.
C8_Witness ==
    /\ detected = "unknown"
    /\ \E o \in scanned :
           /\ o > 2
           /\ SegmentAt(o)
           /\ bytes[o + 2] = 226
           /\ o + 2 + DeclaredLength(o) > Len(bytes)
           /\ ContainsSrgb(SubSeq(bytes, o + 5, Len(bytes)))
           /\ SubSeq(bytes, o + 5, o + 15) = ICC_PROFILE

(***************************************************************************)
(* Specifications.                                                         *)
(***************************************************************************)
Init == InitApp \/ InitWorker \/ InitConvert \/ InitDetect \/ InitResize \/ InitEncode \/ InitAvifQuality \/ InitTask

Next == NextApp \/ NextWorker \/ ContextFails \/ NextConvert \/ NextDetect \/ NextResize \/ NextEncode \/ NextAvifQuality \/ NextTask

Spec == Init /\ [][Next]_vars

SpecApp == InitApp /\ [][NextApp]_vars

SpecWorker == InitWorker /\ [][NextWorker]_vars

SpecWorkerFailing == InitWorker /\ [][NextWorker \/ ContextFails]_vars

SpecConvert == InitConvert /\ [][NextConvert]_vars

SpecDetect == InitDetect /\ [][NextDetect]_vars

\* The scan is straight-line code: a step that can be taken is taken.
SpecDetectFair == SpecDetect /\ WF_vars(NextDetect)

SpecResize == InitResize /\ [][NextResize]_vars

SpecEncode == InitEncode /\ [][NextEncode]_vars

SpecAvifQuality == InitAvifQuality /\ [][NextAvifQuality]_vars

SpecTask == InitTask /\ [][NextTask]_vars

\* The conversion pipeline, as the App runs it and as the worker runs it.
SpecPipeline == (InitApp \/ InitWorker) /\ [][NextApp \/ NextWorker]_vars

====
